---- MODULE Spec2Model ----
(***************************************************************************)
(* A model of the orthogonal grid router (GridRouter) of the visualiser:   *)
(* grid construction over a hierarchy of rectangles, obstacle resolution,  *)
(* single-edge routing, segment extraction, edge ordering and nudging.     *)
(*                                                                         *)
(* Coordinates are integers: every layout and path drawn below is chosen   *)
(* so that the halvings and means the code computes are exact.             *)
(***************************************************************************)
EXTENDS Integers, Sequences, FiniteSets, TLC

VARIABLES
    \* ---- the GridRouter object and its caller
    pc,             \* "idle" | "new" | "ready" | "returned"
    originalnodes,  \* constructor argument: <<[bounds, children]>>, ids 1..n
    nodes,          \* this.nodes: NodeWrapper records
    root,           \* this.root: [children |-> <<ids>>]
    cols,           \* this.cols: bands [members, pos]
    rows,           \* this.rows
    backToFront,    \* this.backToFront: node ids by depth
    verts,          \* this.verts: [id, x, y, node]
    edges,          \* this.edges: [source, target, length]
    obstacles,      \* this.obstacles: node ids of the last route
    passableEdges,  \* this.passableEdges of the last route
    call,           \* the call in progress or just returned
    ret,            \* its return value
    ncalls,         \* calls the caller has made on this router
    \* ---- makeSegments, applied to a drawn point sequence
    segStage,       \* "idle" | "input" | "segmented" | "resegmented"
    path,           \* the point sequence handed to makeSegments
    segments,       \* makeSegments(path)
    resegments,     \* makeSegments(points of segments)
    \* ---- routeEdges, from the routes of its edges on
    nudgeStage,     \* "idle" | "routed" | "ordered" | "threw" | "segmented"
                    \*   | "nudgedX" | "nudgedY"
    routePaths,     \* routePaths: one point sequence per edge
    edgeOrder,      \* the pairs <<l, r>> orderEdges pushed
    routes,         \* routes: one segment list per edge
    bundles,        \* the open sets handed to nudgeSegs, in order
    \* ---- midPoints, applied to drawn band positions
    midStage,       \* "idle" | "input" | "done"
    coords,         \* the sorted band positions handed to midPoints
    mids,           \* midPoints(coords)
    \* ---- the trace updater (VisibleFunctionUpdater)
    updStage,       \* "idle" | "running"
    visNodes,       \* nodes: the ids of the nodes handed to D3
    links,          \* links: [source, target, linkState, linkIndex]
    linkIndex,      \* the index the next link gets
    prevState,      \* whether prevState is set
    scopeChain,     \* the ids of the nodes on the scope chain
    rootNode,       \* the id of the root node, 0 for null
    rootNodeIndex,
    exitingNode,    \* the id of the exiting node, 0 for null
    entered,        \* the nodes created so far; the next node is entered + 1
    lastAction      \* the interpreter state and limit of the last action()

routerVars == <<pc, originalnodes, nodes, root, cols, rows, backToFront, verts,
                edges, obstacles, passableEdges, call, ret, ncalls>>

segVars == <<segStage, path, segments, resegments>>

nudgeVars == <<nudgeStage, routePaths, edgeOrder, routes, bundles>>

midVars == <<midStage, coords, mids>>

updVars == <<updStage, visNodes, links, linkIndex, prevState, scopeChain,
             rootNode, rootNodeIndex, exitingNode, entered, lastAction>>

vars == <<routerVars, segVars, nudgeVars, midVars, updVars>>

\* No trace updater is looked at.
UpdIdle ==
    /\ updStage = "idle"
    /\ visNodes = <<>>
    /\ links = <<>>
    /\ linkIndex = 0
    /\ prevState = FALSE
    /\ scopeChain = <<>>
    /\ rootNode = 0
    /\ rootNodeIndex = 0
    /\ exitingNode = 0
    /\ entered = 0
    /\ lastAction = [kind |-> "none", max |-> 0]

\* No midPoints call is looked at.
MidIdle ==
    /\ midStage = "idle"
    /\ coords = <<>>
    /\ mids = <<>>

\* No routeEdges call is in progress.
NudgeIdle ==
    /\ nudgeStage = "idle"
    /\ routePaths = <<>>
    /\ edgeOrder = {}
    /\ routes = <<>>
    /\ bundles = <<>>

--------------------------------------------------------------------------
(* Arithmetic helpers *)

Abs(n) == IF n < 0 THEN -n ELSE n

Min2(a, b) == IF a <= b THEN a ELSE b

Max2(a, b) == IF a >= b THEN a ELSE b

\* NaN, the value of undefined - 8 and of every sum and difference made with
\* it: modelled by a number that no coordinate takes.  Every comparison with
\* NaN is false.
NaN == -1000000
isNaN(v) == v = NaN

Pt(px, py) == [x |-> px, y |-> py]

--------------------------------------------------------------------------
(* makeSegments *)

\* Bound: the longest point sequence drawn for makeSegments.
MaxPathLen == 5

\* The lattice the point sequences are drawn from.
LatticeXs == 0..2
LatticeYs == 0..2
LatticePoints == {Pt(px, py) : px \in LatticeXs, py \in LatticeYs}

\* Mutant of copyPoint: the point itself is handed on, not a clone.
copyPointShared(p) == p

\* copyPoint: the clone keeps the coordinates and nothing else; it is no
\* longer the vertex it was copied from.
copyPoint(p) == Pt(p.x, p.y)

\* Mutant of isStraight: the tolerance test on the dot product instead of the
\* cross product.
isStraightDot(a, b, c) ==
    Abs((b.x - a.x) * (c.x - a.x) + (b.y - a.y) * (c.y - a.y)) * 1000 < 1

\* Mutant of isStraight: no three points count as a straight line.
isStraightNever(a, b, c) == FALSE

\* |cross(b-a, c-a)| < 0.001
isStraight(a, b, c) ==
    /\ \A q \in {a, b, c} : ~isNaN(q.x) /\ ~isNaN(q.y)
    /\ Abs((b.x - a.x) * (c.y - a.y) - (b.y - a.y) * (c.x - a.x)) * 1000 < 1

\* The loop of makeSegments from index i on, with the current segment start a
\* and the segments pushed so far.
RECURSIVE makeSegmentsFrom(_, _, _, _)
makeSegmentsFrom(p, i, a, segs) ==
    IF i > Len(p) THEN segs
    ELSE LET b == copyPoint(p[i])
             last == (i = Len(p))
         IN IF last \/ ~isStraight(a, b, p[i + 1])
               THEN makeSegmentsFrom(p, i + 1, b, Append(segs, <<a, b>>))
               ELSE makeSegmentsFrom(p, i + 1, a, segs)

makeSegments(p) == makeSegmentsFrom(p, 2, copyPoint(p[1]), <<>>)

\* The point sequence of a segment list: the first start, then every end.
SegmentPoints(segs) ==
    IF Len(segs) = 0 THEN <<>>
    ELSE <<segs[1][1]>> \o [k \in 1..Len(segs) |-> segs[k][2]]

--------------------------------------------------------------------------
(* Generic sequence helpers *)

RECURSIVE SumSeq(_)
SumSeq(s) == IF Len(s) = 0 THEN 0 ELSE s[1] + SumSeq(Tail(s))

RECURSIVE Flatten(_)
Flatten(ss) == IF Len(ss) = 0 THEN <<>> ELSE ss[1] \o Flatten(Tail(ss))

Reverse(s) == [k \in 1..Len(s) |-> s[Len(s) + 1 - k]]

InSeq(x, s) == \E k \in 1..Len(s) : s[k] = x

\* Array.prototype.indexOf, 1-based; 0 when absent.
IndexOf(x, s) ==
    IF InSeq(x, s) THEN CHOOSE k \in 1..Len(s) : s[k] = x /\ \A j \in 1..(k - 1) : s[j] # x
    ELSE 0

\* Array.prototype.sort with a comparator k(a) - k(b), taken as a stable sort:
\* x goes in front of the first element whose key is greater.
RECURSIVE InsertKeyed(_, _)
InsertKeyed(sorted, x) ==
    IF Len(sorted) = 0 THEN <<x>>
    ELSE IF sorted[1].key > x.key THEN <<x>> \o sorted
    ELSE <<sorted[1]>> \o InsertKeyed(Tail(sorted), x)

RECURSIVE SortKeyedFrom(_, _, _)
SortKeyedFrom(s, i, acc) ==
    IF i > Len(s) THEN acc
    ELSE SortKeyedFrom(s, i + 1, InsertKeyed(acc, s[i]))

SortByKey(s, keys) ==
    LET keyed == [k \in 1..Len(s) |-> [key |-> keys[k], val |-> s[k]]]
        sorted == SortKeyedFrom(keyed, 1, <<>>)
    IN [k \in 1..Len(s) |-> sorted[k].val]

--------------------------------------------------------------------------
(* Rectangle: the value type the router gets its bounds as *)

Rect(x1, X1, y1, Y1) == [x |-> x1, X |-> X1, y |-> y1, Y |-> Y1]

\* The halving of cx(), cy(), width()/2 is exact on the layouts drawn.
rcx(r) == (r.x + r.X) \div 2
rcy(r) == (r.y + r.Y) \div 2
rwidth(r) == r.X - r.x
rheight(r) == r.Y - r.y

\* Rectangle.empty() is the unit of union; it is modelled by the flag.
EmptyRect == [empty |-> TRUE]
IsEmptyRect(r) == "empty" \in DOMAIN r

runion(r, q) ==
    IF IsEmptyRect(r) THEN q
    ELSE IF IsEmptyRect(q) THEN r
    ELSE Rect(Min2(r.x, q.x), Max2(r.X, q.X), Min2(r.y, q.y), Max2(r.Y, q.Y))

rinflate(r, pad) == Rect(r.x - pad, r.X + pad, r.y - pad, r.Y + pad)

\* overlapX / overlapY: the length of the common extent, 0 when there is none.
roverlap(axis, r, q) ==
    LET lo == IF axis = "x" THEN Max2(r.x, q.x) ELSE Max2(r.y, q.y)
        hi == IF axis = "x" THEN Min2(r.X, q.X) ELSE Min2(r.Y, q.Y)
    IN IF hi > lo THEN hi - lo ELSE 0

rcentre(axis, r) == IF axis = "x" THEN rcx(r) ELSE rcy(r)

\* lineIntersections for an axis-aligned line: the sides are tried in the
\* order top, right, bottom, left; a side parallel to the line gives nothing;
\* a crossing counts when it lies on both the line and the side, ends included.
lineIntersections(r, l) ==
    IF \E v \in {l.x1, l.x2, l.y1, l.y2} : isNaN(v) THEN <<>>
    ELSE IF l.y1 = l.y2 /\ l.x1 # l.x2
    THEN LET lo == Min2(l.x1, l.x2)
             hi == Max2(l.x1, l.x2)
             onSide == r.y <= l.y1 /\ l.y1 <= r.Y /\ r.y # r.Y
         IN (IF onSide /\ lo <= r.X /\ r.X <= hi THEN <<Pt(r.X, l.y1)>> ELSE <<>>)
            \o (IF onSide /\ lo <= r.x /\ r.x <= hi THEN <<Pt(r.x, l.y1)>> ELSE <<>>)
    ELSE IF l.x1 = l.x2 /\ l.y1 # l.y2
    THEN LET lo == Min2(l.y1, l.y2)
             hi == Max2(l.y1, l.y2)
             onSide == r.x <= l.x1 /\ l.x1 <= r.X /\ r.x # r.X
         IN (IF onSide /\ lo <= r.y /\ r.y <= hi THEN <<Pt(l.x1, r.y)>> ELSE <<>>)
            \o (IF onSide /\ lo <= r.Y /\ r.Y <= hi THEN <<Pt(l.x1, r.Y)>> ELSE <<>>)
    ELSE <<>>

--------------------------------------------------------------------------
(* Grid builder *)

\* NodeWrapper(id, rect, children); parent is -1 (undefined) until the
\* constructor sets it, 0 is the root sentinel.
NodeWrapper(i, bounds, children) ==
    [id |-> i, rect |-> bounds, children |-> children,
     leaf |-> (Len(children) = 0), parent |-> -1, ports |-> <<>>]

Root == 0

leavesOf(ns) == SelectSeq(ns, LAMBDA v : v.leaf)
groupsOf(ns) == SelectSeq(ns, LAMBDA g : ~g.leaf)

avg(a) == SumSeq(a) \div Len(a)

\* The while loop of getGridDim: the first leaf left takes with it every leaf
\* left that overlaps it on the axis; the band's position is the mean centre.
RECURSIVE getGridDimLoop(_, _, _)
getGridDimLoop(axis, ls, columns) ==
    IF Len(ls) = 0 THEN columns
    ELSE LET r == ls[1].rect
             col == SelectSeq(ls, LAMBDA v : roverlap(axis, v.rect, r) # 0)
             rest == SelectSeq(ls, LAMBDA v : ~InSeq(v, col))
             band == [members |-> [k \in 1..Len(col) |-> col[k].id],
                      pos |-> avg([k \in 1..Len(col) |-> rcentre(axis, col[k].rect)])]
         IN getGridDimLoop(axis, rest, Append(columns, band))

\* Mutant of getGridDim: the bands are left in the order they were found.
getGridDimUnsorted(axis, ns) == getGridDimLoop(axis, leavesOf(ns), <<>>)

getGridDim(axis, ns) ==
    LET columns == getGridDimLoop(axis, leavesOf(ns), <<>>)
    IN SortByKey(columns, [k \in 1..Len(columns) |-> columns[k].pos])

\* midPoints (gap/2 is exact on the layouts).  With fewer than two positions
\* a[1] is undefined and gap = a[1] - a[0] is NaN: the loop pushes nothing
\* and both ends are NaN.
midPoints(a) ==
    IF Len(a) < 2 THEN <<NaN, NaN>>
    ELSE LET gap == a[2] - a[1]
         IN <<a[1] - gap \div 2>>
            \o [i \in 1..(Len(a) - 1) |-> (a[i + 1] + a[i]) \div 2]
            \o <<a[Len(a)] + gap \div 2>>

\* groups.forEach(v => v.children.forEach(c => nodes[c].parent = v)): the last
\* group listing c is its parent; then the root claims the orphans.
withParents(ns) ==
    [i \in 1..Len(ns) |->
        LET listing == {g \in 1..Len(ns) : ~ns[g].leaf /\ InSeq(i, ns[g].children)}
        IN [ns[i] EXCEPT !.parent =
                IF listing = {} THEN Root
                ELSE CHOOSE g \in listing : \A h \in listing : h <= g]]

rootOf(ns) ==
    [children |->
        LET orphan == SelectSeq(ns, LAMBDA v :
                \A g \in 1..Len(ns) : ns[g].leaf \/ ~InSeq(v.id, ns[g].children))
        IN [k \in 1..Len(orphan) |-> orphan[k].id]]

RECURSIVE getDepth(_, _)
getDepth(ns, v) ==
    IF ns[v].parent = Root THEN 0 ELSE 1 + getDepth(ns, ns[v].parent)

\* while (v.parent !== this.root) v = v.parent, followed for k steps: the
\* node reached, Root once the walk has met the root.
RECURSIVE parentWalk(_, _, _)
parentWalk(ns, v, k) ==
    IF v = Root \/ k = 0 THEN v ELSE parentWalk(ns, ns[v].parent, k - 1)

\* getDepth(v) never returns: the parent chain of v does not meet the root
\* (a chain that meets it does so within as many steps as there are nodes).
getDepthNeverEnds(ns, v) == parentWalk(ns, v, Len(ns)) # Root

\* backToFront.sort(...) never returns: the comparator is called on every
\* node once there are two of them, and getDepth hangs on one.
sortNeverEnds(ns) ==
    Len(ns) >= 2 /\ \E v \in 1..Len(ns) : getDepthNeverEnds(ns, v)

\* this.backToFront: the nodes sorted by depth.
backToFrontOf(ns) ==
    SortByKey([k \in 1..Len(ns) |-> k], [k \in 1..Len(ns) |-> getDepth(ns, k)])

\* Mutant of groupRect: the padding is left out.
groupRectNoPadding(ns, g, pad) ==
    LET RECURSIVE U(_, _)
        U(k, r) == IF k > Len(ns[g].children) THEN r
                   ELSE U(k + 1, runion(r, ns[ns[g].children[k]].rect))
    IN U(1, EmptyRect)

\* r = Rectangle.empty(); children.forEach(c => r = r.union(nodes[c].rect));
\* rect = r.inflate(groupPadding)
groupRect(ns, g, pad) ==
    LET RECURSIVE U(_, _)
        U(k, r) == IF k > Len(ns[g].children) THEN r
                   ELSE U(k + 1, runion(r, ns[ns[g].children[k]].rect))
    IN rinflate(U(1, EmptyRect), pad)

\* frontToBackGroups.forEach: each group's rectangle in turn, deepest first,
\* reading the rectangles its children have at that moment.
RECURSIVE withGroupRects(_, _, _, _)
withGroupRects(ns, order, k, pad) ==
    IF k > Len(order) THEN ns
    ELSE withGroupRects([ns EXCEPT ![order[k]].rect = groupRect(ns, order[k], pad)],
                        order, k + 1, pad)

\* Mutant of frontToBackGroups: backToFront is not reversed.
backToFrontGroups(ns, btf) == SelectSeq(btf, LAMBDA g : ~ns[g].leaf)

frontToBackGroups(ns, btf) == SelectSeq(Reverse(btf), LAMBDA g : ~ns[g].leaf)

--------------------------------------------------------------------------
(* Routing graph builder *)

GridLine(ax1, ax2, ay1, ay2) == [x1 |-> ax1, x2 |-> ax2, y1 |-> ay1, y2 |-> ay2]

bandPositions(bands) == [k \in 1..Len(bands) |-> bands[k].pos]

\* hlines: one per row band, then one per row midpoint, from rowx to rowX.
hlinesOf(rs, colMids, rowMids) ==
    [k \in 1..Len(rs) |->
        GridLine(colMids[1], colMids[Len(colMids)], rs[k].pos, rs[k].pos)]
    \o [k \in 1..Len(rowMids) |->
        GridLine(colMids[1], colMids[Len(colMids)], rowMids[k], rowMids[k])]

\* vlines: one per column band, then one per column midpoint, from coly to colY.
vlinesOf(cs, colMids, rowMids) ==
    [k \in 1..Len(cs) |->
        GridLine(cs[k].pos, cs[k].pos, rowMids[1], rowMids[Len(rowMids)])]
    \o [k \in 1..Len(colMids) |->
        GridLine(colMids[k], colMids[k], rowMids[1], rowMids[Len(rowMids)])]

\* |p.x - r.cx()| < r.width()/2 && |p.y - r.cy()| < r.height()/2, doubled.
strictlyInside(px, py, r) ==
    /\ ~isNaN(px) /\ ~isNaN(py)
    /\ Abs(2 * px - (r.x + r.X)) < rwidth(r)
    /\ Abs(2 * py - (r.y + r.Y)) < rheight(r)

\* var i = backToFront.length; while (i-- > 0) ...: the last node of
\* backToFront that strictly contains the point; 0 when none does.
RECURSIVE ownerFrom(_, _, _, _, _)
ownerFrom(px, py, ns, btf, i) ==
    IF i = 0 THEN 0
    ELSE IF strictlyInside(px, py, ns[btf[i]].rect) THEN btf[i]
    ELSE ownerFrom(px, py, ns, btf, i - 1)

\* The vertices at the crossings of hlines and vlines, hline by hline.
crossingVerts(ns, btf, hl, vl) ==
    [k \in 1..(Len(hl) * Len(vl)) |->
        LET h == hl[((k - 1) \div Len(vl)) + 1]
            v == vl[((k - 1) % Len(vl)) + 1]
        IN [id |-> k, x |-> v.x1, y |-> h.y1,
            node |-> ownerFrom(v.x1, h.y1, ns, btf, Len(btf))]]

\* The ids of the crossing vertices on line li, in the order they were pushed.
crossingsOnLine(li, H, V) ==
    IF li <= H THEN [vi \in 1..V |-> (li - 1) * V + vi]
    ELSE [hi \in 1..H |-> (hi - 1) * V + (li - H)]

\* The intersections xs of a line with the rectangle of node i.
intersectionsOfNode(xs, i) ==
    [j \in 1..Len(xs) |-> [x |-> xs[j].x, y |-> xs[j].y, node |-> i]]

\* The intersections of line l with every node's rectangle, node by node.
linePorts(ns, l) ==
    Flatten([i \in 1..Len(ns) |->
                intersectionsOfNode(lineIntersections(ns[i].rect, l), i)])

\* new Vert(this.verts.length, x, y, v, l) for each intersection found, n
\* vertices being there already.
portVerts(found, n) ==
    [j \in 1..Len(found) |->
        [id |-> n + j, x |-> found[j].x, y |-> found[j].y, node |-> found[j].node]]

isHoriz(l) == ~isNaN(l.y1) /\ ~isNaN(l.y2) /\ Abs(l.y1 - l.y2) * 10 < 1

\* The coordinate of vertex a along the line.
along(l, a) == IF isHoriz(l) THEN a.x ELSE a.y

\* delta(a, b) of the line: b's coordinate along the line minus a's.
delta(l, a, b) ==
    IF isNaN(along(l, a)) \/ isNaN(along(l, b)) THEN NaN
    ELSE along(l, b) - along(l, a)

\* l.verts.sort(delta): descending along the line, ties in push order.  A
\* comparison that gives NaN counts as a tie; on a line with NaN vertices no
\* two vertices compare otherwise, and the push order stays.
sortLineVerts(l, vs) ==
    IF \E k \in 1..Len(vs) : isNaN(along(l, vs[k])) THEN vs
    ELSE SortByKey(vs, [k \in 1..Len(vs) |-> -along(l, vs[k])])

\* Mutant of skipsEdge: no edge is skipped.
skipsEdgeNever(ns, u, v) == FALSE

\* if (u.node && u.node === v.node && u.node.leaf) continue;
skipsEdge(ns, u, v) == u.node # 0 /\ u.node = v.node /\ ns[u.node].leaf

\* this.edges.push({source: u.id, target: v.id, length: Math.abs(delta(u,v))})
edgesPushed(l, kept) ==
    [k \in 1..Len(kept) |->
        [source |-> kept[k].u.id, target |-> kept[k].v.id,
         length |-> IF isNaN(delta(l, kept[k].u, kept[k].v)) THEN NaN
                    ELSE Abs(delta(l, kept[k].u, kept[k].v))]]

\* The chain of edges along one line's sorted vertices.
lineEdges(ns, l, sorted) ==
    edgesPushed(l, SelectSeq([i \in 1..(Len(sorted) - 1) |->
                                [u |-> sorted[i], v |-> sorted[i + 1]]],
                             LAMBDA e : ~skipsEdge(ns, e.u, e.v)))

\* The ids of the ports among newVerts that node i owns.
portIdsOf(newVerts, i) ==
    [k \in 1..Len(SelectSeq(newVerts, LAMBDA p : p.node = i)) |->
        SelectSeq(newVerts, LAMBDA p : p.node = i)[k].id]

\* One round of lines.forEach: the ports newVerts of line l are pushed, the
\* line's vertices (its crossings, then its ports) are sorted and chained
\* into edges.  g = [verts, edges, ports].
withLine(ns, l, cross, g, newVerts) ==
    [verts |-> g.verts \o newVerts,
     edges |-> g.edges
               \o lineEdges(ns, l,
                    sortLineVerts(l, [k \in 1..Len(cross) |-> g.verts[cross[k]]]
                                     \o newVerts)),
     ports |-> [i \in 1..Len(ns) |-> g.ports[i] \o portIdsOf(newVerts, i)]]

RECURSIVE linesLoop(_, _, _, _, _, _)
linesLoop(ns, lines, H, V, li, g) ==
    IF li > Len(lines) THEN g
    ELSE linesLoop(ns, lines, H, V, li + 1,
                   withLine(ns, lines[li], crossingsOnLine(li, H, V), g,
                            portVerts(linePorts(ns, lines[li]), Len(g.verts))))

\* The constructor, statement by statement, on the object under construction.
wrapped(original, pad) ==
    [groupPadding |-> pad,
     nodes |-> [i \in 1..Len(original) |->
                    NodeWrapper(i, original[i].bounds, original[i].children)],
     root |-> [children |-> <<>>], cols |-> <<>>, rows |-> <<>>,
     backToFront |-> <<>>, hlines |-> <<>>, vlines |-> <<>>,
     verts |-> <<>>, edges |-> <<>>]

withGrid(this) ==
    [this EXCEPT !.cols = getGridDim("x", this.nodes),
                 !.rows = getGridDim("y", this.nodes)]

withHierarchy(this) ==
    [this EXCEPT !.nodes = withParents(this.nodes), !.root = rootOf(this.nodes)]

withOrder(this) == [this EXCEPT !.backToFront = backToFrontOf(this.nodes)]

withRects(this) ==
    [this EXCEPT !.nodes =
        withGroupRects(this.nodes, frontToBackGroups(this.nodes, this.backToFront),
                       1, this.groupPadding)]

withLinesOf(this, colMids, rowMids) ==
    [this EXCEPT !.hlines = hlinesOf(this.rows, colMids, rowMids),
                 !.vlines = vlinesOf(this.cols, colMids, rowMids)]

withLines(this) ==
    withLinesOf(this, midPoints(bandPositions(this.cols)),
                      midPoints(bandPositions(this.rows)))

withGraphOf(this, g) ==
    [this EXCEPT !.nodes = [i \in 1..Len(this.nodes) |->
                                [this.nodes[i] EXCEPT !.ports = g.ports[i]]],
                 !.verts = g.verts,
                 !.edges = g.edges]

withGraph(this) ==
    withGraphOf(this,
        linesLoop(this.nodes, this.hlines \o this.vlines,
                  Len(this.hlines), Len(this.vlines), 1,
                  [verts |-> crossingVerts(this.nodes, this.backToFront,
                                           this.hlines, this.vlines),
                   edges |-> <<>>,
                   ports |-> [i \in 1..Len(this.nodes) |-> <<>>]]))

construct(original, pad) ==
    withGraph(withLines(withRects(withOrder(withHierarchy(withGrid(
        wrapped(original, pad)))))))

--------------------------------------------------------------------------
(* Obstacle resolver *)

\* findLineage: from the root sentinel down to v, both included.
RECURSIVE findLineage(_, _)
findLineage(ns, v) ==
    IF ns[v].parent = Root THEN <<Root, v>>
    ELSE Append(findLineage(ns, ns[v].parent), v)

\* while (aa[i] === ba[i]) i++ : reading past the end of an array gives
\* undefined, and undefined === undefined, so the loop ends only where the
\* lineages differ.  It never ends when they are equal.
lineagesNeverDiffer(ns, a, b) == findLineage(ns, a) = findLineage(ns, b)

RECURSIVE firstDifference(_, _, _)
firstDifference(aa, ba, i) ==
    IF i <= Len(aa) /\ i <= Len(ba) /\ aa[i] = ba[i]
    THEN firstDifference(aa, ba, i + 1)
    ELSE i

\* {commonAncestor: aa[i-1], lineages: aa.slice(i).concat(ba.slice(i))}
ancestorPath(aa, ba, i) ==
    [commonAncestor |-> aa[i - 1],
     lineages |-> SubSeq(aa, i, Len(aa)) \o SubSeq(ba, i, Len(ba))]

LowestCommonOf(aa, ba) == aa[firstDifference(aa, ba, 1) - 1]

lineagesFrom(aa, ba) == ancestorPath(aa, ba, firstDifference(aa, ba, 1))

findAncestorPathBetween(ns, a, b) ==
    lineagesFrom(findLineage(ns, a), findLineage(ns, b))

childrenOf(ns, rt, v) == IF v = Root THEN rt.children ELSE ns[v].children

\* path.lineages.filter(v => v.parent !== path.commonAncestor) and, for each,
\* v.parent.children.filter(c => c !== v.id).
siblingsBelow(ns, rt, ap) ==
    Flatten([k \in 1..Len(ap.lineages) |->
        IF ns[ap.lineages[k]].parent = ap.commonAncestor THEN <<>>
        ELSE SelectSeq(childrenOf(ns, rt, ns[ap.lineages[k]].parent),
                       LAMBDA c : c # ap.lineages[k])])

\* ap.commonAncestor.children.filter(v => !(v in lineageLookup))
siblingsAtTop(ns, rt, ap) ==
    SelectSeq(childrenOf(ns, rt, ap.commonAncestor),
              LAMBDA v : ~InSeq(v, ap.lineages))

obstaclesOn(ns, rt, ap) ==
    siblingsAtTop(ns, rt, ap) \o siblingsBelow(ns, rt, ap)

\* Mutant of siblingObstacles: the common ancestor's children are not filtered
\* by the lineage lookup.
siblingObstaclesUnfiltered(ns, rt, a, b) ==
    childrenOf(ns, rt, LowestCommonOf(findLineage(ns, a), findLineage(ns, b)))
    \o siblingsBelow(ns, rt, findAncestorPathBetween(ns, a, b))

\* Mutant of siblingObstacles: only the common ancestor's children are taken.
siblingObstaclesTopOnly(ns, rt, a, b) ==
    siblingsAtTop(ns, rt, findAncestorPathBetween(ns, a, b))

\* The children of the common ancestor that are not on a lineage, then, for
\* every lineage node whose parent is not the common ancestor, its siblings.
siblingObstacles(ns, rt, a, b) ==
    obstaclesOn(ns, rt, findAncestorPathBetween(ns, a, b))

--------------------------------------------------------------------------
(* Shortest paths with a cost on the previous hop (shortestpaths.Calculator) *)

\* bendPenalty(u, v, w): nothing for a turn inside the source or the target,
\* 1000 when both dx and dy from u to w exceed 1.
bendPenalty(vs, s, t, u, v, w) ==
    LET a == vs[u]
        b == vs[v]
        c == vs[w]
        dx == Abs(c.x - a.x)
        dy == Abs(c.y - a.y)
    IN IF (a.node = s /\ a.node = b.node) \/ (b.node = t /\ b.node = c.node) THEN 0
       ELSE IF dx > 1 /\ dy > 1 THEN 1000 ELSE 0

\* The function f itself.  The comparison makes TLC enumerate f once, where it
\* would otherwise evaluate the body of f again at every application.
Tabulated(f) == IF f = f THEN f ELSE f

\* The calculator reads the edge list as undirected.
neighboursOf(es, v) ==
    {es[k].target : k \in {j \in 1..Len(es) : es[j].source = v}}
    \cup {es[k].source : k \in {j \in 1..Len(es) : es[j].target = v}}

\* The length of the shortest edge joining u and v.
hopLength(es, u, v) ==
    LET ls == {es[k].length : k \in {j \in 1..Len(es) :
                    \/ es[j].source = u /\ es[j].target = v
                    \/ es[j].source = v /\ es[j].target = u}}
    IN CHOOSE d \in ls : \A e \in ls : d <= e

\* One round of relaxation.  dist[<<u, v>>] is the least cost found of a walk
\* from start whose last hop is u -> v (-1: none found); a walk never doubles
\* back and is not continued through end; the first hop has no previous cost.
relaxOnce(c, end, dist) ==
    [h \in DOMAIN dist |->
        LET u == h[1]
            v == h[2]
            via == {dist[<<w, u>>] + c.len[h] + c.pen[<<w, u, v>>] :
                        w \in {x \in c.nbr[u] : x # v /\ dist[<<x, u>>] >= 0}}
            cands == (IF u = end THEN {} ELSE via)
                     \cup (IF dist[h] >= 0 THEN {dist[h]} ELSE {})
        IN IF cands = {} THEN -1 ELSE CHOOSE d \in cands : \A e \in cands : d <= e]

RECURSIVE relaxToFixpoint(_, _, _)
relaxToFixpoint(c, end, dist) ==
    LET next == relaxOnce(c, end, dist)
    IN IF next = dist THEN dist ELSE relaxToFixpoint(c, end, next)

\* The hops u -> v of the graph.
hopsOf(nbr) == UNION {{<<u, v>> : v \in nbr[u]} : u \in DOMAIN nbr}

\* Neighbours, hop lengths and previous-hop costs, as the calculator sees them.
costTable(es, nbr, prevCost) ==
    [nbr |-> Tabulated(nbr),
     len |-> Tabulated([h \in hopsOf(nbr) |-> hopLength(es, h[1], h[2])]),
     pen |-> Tabulated(
                [t \in UNION {{<<w, h[1], h[2]>> : w \in nbr[h[1]] \ {h[2]}} :
                                h \in hopsOf(nbr)}
                    |-> bendPenalty(prevCost.verts, prevCost.source,
                                    prevCost.target, t[1], t[2], t[3])])]

\* The least costs of all hops: the fixpoint of the relaxation.
withLeastCosts(c, start, end) ==
    [nbr |-> c.nbr, len |-> c.len, pen |-> c.pen,
     dist |-> relaxToFixpoint(c, end,
                [h \in DOMAIN c.len |-> IF h[1] = start THEN c.len[h] ELSE -1])]

hopCosts(n, es, start, end, prevCost) ==
    withLeastCosts(costTable(es, [v \in 1..n |-> neighboursOf(es, v)], prevCost),
                   start, end)

\* The walks of least cost that end with hop h, start first, h[2] last.
RECURSIVE walksEndingWith(_, _, _)
walksEndingWith(c, start, h) ==
    LET u == h[1]
        v == h[2]
        direct == IF u = start /\ c.dist[h] = c.len[h] THEN {<<u, v>>} ELSE {}
        before == {w \in c.nbr[u] : /\ w # v
                                    /\ c.dist[<<w, u>>] >= 0
                                    /\ c.dist[<<w, u>>] + c.len[h] + c.pen[<<w, u, v>>]
                                         = c.dist[h]}
    IN direct \cup
       UNION {{Append(p, v) : p \in walksEndingWith(c, start, <<w, u>>)} :
                w \in before}

\* The hops into end that some walk from start reaches.
hopsInto(c, end) == {<<w, end>> : w \in {x \in c.nbr[end] : c.dist[<<x, end>>] >= 0}}

\* The walks of least cost from start to end, without end itself, reversed;
\* {<<>>} when no walk reaches end.
leastCostPaths(c, start, into) ==
    IF into = {} THEN {<<>>}
    ELSE {Reverse(SubSeq(p, 1, Len(p) - 1)) :
            p \in UNION {walksEndingWith(c, start, h) :
                    h \in {g \in into : \A o \in into : c.dist[g] <= c.dist[o]}}}

pathsIn(c, start, end) == leastCostPaths(c, start, hopsInto(c, end))

\* The edges whose length is a number.
finiteEdges(es) == SelectSeq(es, LAMBDA e : ~isNaN(e.length))

\* The walks that continue p to end through no vertex twice.
RECURSIVE walksOn(_, _, _)
walksOn(es, p, end) ==
    IF p[Len(p)] = end THEN {p}
    ELSE UNION {walksOn(es, Append(p, v), end) :
                  v \in {w \in neighboursOf(es, p[Len(p)]) : ~InSeq(w, p)}}

\* Walk p goes over an edge of length NaN.
costIsNaN(es, p) ==
    \E k \in 1..(Len(p) - 1) :
        \E j \in 1..Len(es) :
            /\ isNaN(es[j].length)
            /\ {es[j].source, es[j].target} = {p[k], p[k + 1]}

\* The cost of a walk over an edge of length NaN is NaN, and no comparison
\* of costs turns it down: the search may answer with any such walk.
nanCostPaths(es, start, end) ==
    IF finiteEdges(es) = es THEN {}
    ELSE {Reverse(SubSeq(p, 1, Len(p) - 1)) :
            p \in {q \in walksOn(es, <<start>>, end) : costIsNaN(es, q)}}

\* The answers with a cost, unless there are none and some have cost NaN.
answersOf(withCost, withNaN) ==
    IF withCost = {<<>>} /\ withNaN # {} THEN withNaN ELSE withCost \cup withNaN

\* PathFromNodeToNodeWithPrevCost: every answer the search may give.  prevCost
\* is the closure handed in by route: bendPenalty over its verts, source and
\* target.
PathFromNodeToNodeWithPrevCost(n, es, start, end, prevCost) ==
    answersOf(pathsIn(hopCosts(n, finiteEdges(es), start, end, prevCost),
                      start, end),
              nanCostPaths(es, start, end))

--------------------------------------------------------------------------
(* Router: one route *)

ownedByOneOf(vs, v, obs) == vs[v].node # 0 /\ InSeq(vs[v].node, obs)

\* Mutant of passableEdge: no edge is filtered out.
passableEdgeAlways(vs, obs, e) == TRUE

\* !(u.node && u.node.id in obstacleLookup || v.node && v.node.id in obstacleLookup)
passableEdge(vs, obs, e) ==
    ~(ownedByOneOf(vs, e.source, obs) \/ ownedByOneOf(vs, e.target, obs))

\* Mutant of dummyEdges: each port is linked to the next one.
dummyEdgesChained(ports) ==
    [k \in 1..(Len(ports) - 1) |->
        [source |-> ports[k], target |-> ports[k + 1], length |-> 0]]

\* The dummy segments linking ports[0] of a node to each of its other ports.
dummyEdges(ports) ==
    [k \in 1..(Len(ports) - 1) |->
        [source |-> ports[1], target |-> ports[k + 1], length |-> 0]]

passableEdgesOf(ns, vs, es, obs, s, t) ==
    SelectSeq(es, LAMBDA e : passableEdge(vs, obs, e))
    \o dummyEdges(ns[s].ports) \o dummyEdges(ns[t].ports)

\* The filter of route: a point goes when it and its successor are owned by
\* the source, or it and its predecessor are owned by the target.
keepsPoint(pp, s, t, i) ==
    ~(\/ i < Len(pp) /\ pp[i + 1].node = s /\ pp[i].node = s
      \/ i > 1 /\ pp[i].node = t /\ pp[i - 1].node = t)

\* pathPoints.filter(...)
filteredPoints(pathPoints, s, t) ==
    SelectSeq([i \in 1..Len(pathPoints) |->
                  [p |-> pathPoints[i], keep |-> keepsPoint(pathPoints, s, t, i)]],
              LAMBDA e : e.keep)

pointsOf(kept) == [k \in 1..Len(kept) |-> kept[k].p]

\* The points route returns for one answer of the shortest-path search:
\* shortestPath.reverse().map(vi => verts[vi]), the target's first port pushed.
routePoints(ns, vs, s, t, shortestPath) ==
    pointsOf(filteredPoints(
        [k \in 1..Len(shortestPath) |-> vs[Reverse(shortestPath)[k]]]
        \o <<vs[ns[t].ports[1]]>>, s, t))

\* Every point sequence route(s, t) may return, given the passable edges.
routeResults(ns, vs, pes, s, t) ==
    {routePoints(ns, vs, s, t, sp) :
        sp \in PathFromNodeToNodeWithPrevCost(
                    Len(vs), pes, ns[s].ports[1], ns[t].ports[1],
                    [verts |-> vs, source |-> s, target |-> t])}

--------------------------------------------------------------------------
(* The router and its caller *)

\* groupPadding: number = 12
DefaultGroupPadding == 12

\* A 16 x 16 leaf in cell (i, j) of an 80-unit raster.
LeafAt(i, j) ==
    [bounds |-> Rect(80 * i, 80 * i + 16, 80 * j, 80 * j + 16), children |-> <<>>]

LeafIn(b) == [bounds |-> b, children |-> <<>>]

\* A group: its bounds are recomputed by the constructor.
GroupOf(children) == [bounds |-> Rect(0, 0, 0, 0), children |-> children]

\* Two top-level leaves on a diagonal.
LayoutFlat == <<LeafAt(0, 0), LeafAt(1, 1)>>

\* One group around three leaves on a diagonal.
LayoutGroup == <<LeafAt(0, 0), LeafAt(1, 1), LeafAt(2, 2), GroupOf(<<1, 2, 3>>)>>

\* A group (5) holding a leaf (3) and a group (6) of two leaves; group 6 lies
\* between leaf 3 and the top-level leaf (4), the row of 3 and 4 running
\* between the leaves of group 6.
LayoutNested ==
    <<LeafAt(1, 0), LeafAt(1, 2), LeafAt(0, 1), LeafAt(2, 1),
      GroupOf(<<6, 3>>), GroupOf(<<1, 2>>)>>

\* Two leaves that share a column band without sharing a centre.
LayoutUneven ==
    <<LeafIn(Rect(0, 16, 0, 16)), LeafIn(Rect(8, 24, 80, 96)),
      LeafIn(Rect(164, 180, 0, 16))>>

\* Two groups that list each other, and a leaf beside them.
LayoutCycle == <<GroupOf(<<2>>), GroupOf(<<1>>), LeafAt(0, 0)>>

\* A top-level leaf (3) between the two leaves of a group (5) it is not a
\* child of, and a top-level leaf (4) outside that group.
LayoutEnclosed ==
    <<LeafAt(0, 0), LeafAt(0, 2), LeafAt(0, 1), LeafAt(1, 1), GroupOf(<<1, 2>>)>>

\* Two top-level leaves side by side: one row band.
LayoutRow == <<LeafAt(0, 0), LeafAt(1, 0)>>

Layouts ==
    {LayoutFlat, LayoutGroup, LayoutNested, LayoutUneven, LayoutCycle,
     LayoutEnclosed, LayoutRow}

Init ==
    /\ pc = "new"
    /\ originalnodes \in Layouts
    /\ nodes = <<>>
    /\ root = [children |-> <<>>]
    /\ cols = <<>>
    /\ rows = <<>>
    /\ backToFront = <<>>
    /\ verts = <<>>
    /\ edges = <<>>
    /\ obstacles = <<>>
    /\ passableEdges = <<>>
    /\ call = [op |-> "none"]
    /\ ret = <<>>
    /\ ncalls = 0
    /\ segStage = "idle"
    /\ path = <<>>
    /\ segments = <<>>
    /\ resegments = <<>>
    /\ NudgeIdle
    /\ MidIdle
    /\ UpdIdle

\* The fields of the finished object.
Constructed(this) ==
    /\ nodes' = this.nodes
    /\ root' = this.root
    /\ cols' = this.cols
    /\ rows' = this.rows
    /\ backToFront' = this.backToFront
    /\ verts' = this.verts
    /\ edges' = this.edges

\* The parents as the constructor sets them before it sorts by depth.
parentsOf(original) ==
    withHierarchy(withGrid(wrapped(original, DefaultGroupPadding))).nodes

\* new GridRouter(originalnodes, accessor).  The constructor never returns
\* when its sort by depth does not; no object reaches the caller then.
Construct ==
    /\ pc = "new"
    /\ IF sortNeverEnds(parentsOf(originalnodes))
       THEN /\ pc' = "hung"
            /\ UNCHANGED <<nodes, root, cols, rows, backToFront, verts, edges>>
       ELSE /\ pc' = "ready"
            /\ Constructed(construct(originalnodes, DefaultGroupPadding))
    /\ UNCHANGED <<originalnodes, obstacles, passableEdges, call, ret, ncalls,
                   segVars, nudgeVars,
                   midVars, updVars>>

NoCall == [op |-> "none"]

\* Bound: the calls the caller makes on one router.
MaxCalls == 2

NodeIds == 1..Len(nodes)

\* The search of route over the passable edges pes and what it returns.
RouteOver(s, t, pes) ==
    /\ passableEdges' = pes
    /\ IF Len(nodes[s].ports) = 0 \/ Len(nodes[t].ports) = 0
       THEN /\ pc' = "threw"
            /\ ret' = <<>>
       ELSE /\ pc' = "returned"
            /\ ret' \in routeResults(nodes, verts, pes, s, t)

\* Mutant of RouteAround: obstacles left by an earlier request are kept.
RouteAroundStale(s, t, obs) ==
    /\ obstacles' = (IF obstacles # <<>> THEN obstacles ELSE obs)
    /\ RouteOver(s, t, passableEdgesOf(nodes, verts, edges,
                                       IF obstacles # <<>> THEN obstacles ELSE obs,
                                       s, t))

\* route once this.obstacles is known.
RouteAround(s, t, obs) ==
    /\ obstacles' = obs
    /\ RouteOver(s, t, passableEdgesOf(nodes, verts, edges, obs, s, t))

\* The indices a caller may hand to route: those of the nodes, the one below
\* them and the one above.
CallIds == 0..(Len(nodes) + 1)

Undefined == -1

\* Mutant of nodeAt: an index outside the list reads the first node.
nodeAtFirst(ns, i) == IF i \in 1..Len(ns) THEN i ELSE 1

\* this.nodes[i]: undefined for an index outside the list.
nodeAt(ns, i) == IF i \in 1..Len(ns) THEN i ELSE Undefined

\* route(s, t).  findLineage reads v.parent of an undefined node and throws
\* before this.obstacles is assigned; the call never returns when the lineages
\* of s and t never differ; it throws when a node has no port to start from.
Route(s, t) ==
    /\ pc = "ready"
    /\ ncalls < MaxCalls
    /\ ncalls' = ncalls + 1
    /\ call' = [op |-> "route", a |-> s, b |-> t]
    /\ IF nodeAt(nodes, s) = Undefined \/ nodeAt(nodes, t) = Undefined
       THEN /\ pc' = "threw"
            /\ ret' = <<>>
            /\ UNCHANGED <<obstacles, passableEdges>>
       ELSE IF lineagesNeverDiffer(nodes, nodeAt(nodes, s), nodeAt(nodes, t))
       THEN /\ pc' = "hung"
            /\ UNCHANGED <<obstacles, passableEdges, ret>>
       ELSE RouteAround(nodeAt(nodes, s), nodeAt(nodes, t),
                        siblingObstacles(nodes, root, nodeAt(nodes, s),
                                         nodeAt(nodes, t)))
    /\ UNCHANGED <<originalnodes, nodes, root, cols, rows, backToFront, verts,
                   edges, segVars, nudgeVars,
                   midVars, updVars>>

\* siblingObstacles(a, b), as a query of its own: the node ids it returns.
SiblingObstacles(a, b) ==
    /\ pc = "ready"
    /\ ncalls < MaxCalls
    /\ ncalls' = ncalls + 1
    /\ call' = [op |-> "siblingObstacles", a |-> a, b |-> b]
    /\ IF lineagesNeverDiffer(nodes, a, b)
       THEN /\ pc' = "hung"
            /\ UNCHANGED ret
       ELSE /\ pc' = "returned"
            /\ ret' = siblingObstacles(nodes, root, a, b)
    /\ UNCHANGED <<originalnodes, nodes, root, cols, rows, backToFront, verts,
                   edges, obstacles, passableEdges, segVars, nudgeVars,
                   midVars, updVars>>

\* The caller takes the result (or catches the error) and may call again.
Return ==
    /\ pc \in {"returned", "threw"}
    /\ pc' = "ready"
    /\ call' = NoCall
    /\ ret' = <<>>
    /\ UNCHANGED <<originalnodes, nodes, root, cols, rows, backToFront, verts,
                   edges, obstacles, passableEdges, ncalls, segVars, nudgeVars,
                   midVars, updVars>>

Next ==
    \/ Construct
    \/ \E s \in CallIds, t \in CallIds : Route(s, t)
    \/ \E a \in NodeIds, b \in NodeIds : SiblingObstacles(a, b)
    \/ Return

Spec == Init /\ [][Next]_vars

--------------------------------------------------------------------------
(* Properties of the constructed router and of its calls *)

LeafIds == {i \in NodeIds : nodes[i].leaf}

GroupIds == {i \in NodeIds : ~nodes[i].leaf}

\* v and the nodes on its parent chain, the root sentinel included.
RECURSIVE Ancestry(_, _)
Ancestry(ns, v) ==
    IF v = Root THEN {Root} ELSE {v} \cup Ancestry(ns, ns[v].parent)

\* The lowest node that is on the parent chains of both a and b.
LowestCommonAncestor(ns, a, b) ==
    LET common == Ancestry(ns, a) \cap Ancestry(ns, b)
    IN CHOOSE x \in common : common \subseteq Ancestry(ns, x)

\* The nodes on the parent chains of a and b up to the common ancestor.
ChainsToCommon(ns, a, b) ==
    {x \in Ancestry(ns, a) \cup Ancestry(ns, b) :
        LowestCommonAncestor(ns, a, b) \in Ancestry(ns, x)}

SeqSet(s) == {s[k] : k \in 1..Len(s)}

PortsOf(v) == SeqSet(nodes[v].ports)

RouteReturned == pc = "returned" /\ call.op = "route"

ObstaclesReturned == pc = "returned" /\ call.op = "siblingObstacles"

\* C1: the path route(s, t) returns starts with a port of s and ends with a
\* port of t.
C1_RouteEndsArePorts ==
    RouteReturned =>
        /\ ret[1].id \in PortsOf(call.a)
        /\ ret[Len(ret)].id \in PortsOf(call.b)

\* C2: no vertex of the path route(s, t) returns is owned by a node of
\* siblingObstacles(s, t) or by a descendant of such a node.
C2_RouteAvoidsObstacles ==
    RouteReturned =>
        \A k \in 1..Len(ret) :
            \A o \in SeqSet(siblingObstacles(nodes, root, call.a, call.b)) :
                ret[k].node = 0 \/ o \notin Ancestry(nodes, ret[k].node)

\* A route has returned that had a group among its obstacles and went through
\* vertices outside its two end nodes.
C2_Witness ==
    /\ RouteReturned
    /\ \E k \in 1..Len(obstacles) : ~nodes[obstacles[k]].leaf
    /\ \E k \in 1..Len(ret) : ret[k].node \notin {call.a, call.b}

\* C3: siblingObstacles(a, b) contains neither a, nor b, nor a node on the
\* parent chain of a or b up to and including their lowest common ancestor.
C3_ObstaclesOffLineage ==
    ObstaclesReturned =>
        SeqSet(ret) \cap ChainsToCommon(nodes, call.a, call.b) = {}

\* siblingObstacles has returned obstacles for two nodes at different depths
\* below their common ancestor.
C3_Witness ==
    /\ ObstaclesReturned
    /\ Len(ret) >= 2
    /\ Cardinality(ChainsToCommon(nodes, call.a, call.b)) >= 4

\* C4: siblingObstacles(a, b) contains every child of the lowest common
\* ancestor that is not on the lineage of a or b, and all siblings of every
\* lineage node that is not a child of the common ancestor.
C4_ObstaclesCoverSiblings ==
    ObstaclesReturned =>
        LET lca == LowestCommonAncestor(nodes, call.a, call.b)
            chain == ChainsToCommon(nodes, call.a, call.b)
        IN /\ SeqSet(childrenOf(nodes, root, lca)) \ chain \subseteq SeqSet(ret)
           /\ \A x \in chain \ {lca} :
                nodes[x].parent # lca =>
                    SeqSet(childrenOf(nodes, root, nodes[x].parent)) \ {x}
                        \subseteq SeqSet(ret)

\* siblingObstacles has returned for a node two levels below the common
\* ancestor, the common ancestor having a child off the lineages.
C4_Witness ==
    /\ ObstaclesReturned
    /\ LET lca == LowestCommonAncestor(nodes, call.a, call.b)
           chain == ChainsToCommon(nodes, call.a, call.b)
       IN /\ \E x \in chain \ {lca} :
                /\ nodes[x].parent # lca
                /\ Len(childrenOf(nodes, root, nodes[x].parent)) >= 2
          /\ SeqSet(childrenOf(nodes, root, lca)) \ chain # {}

\* C7: no edge of this.edges has both endpoints owned by the same leaf.
C7_NoEdgeInsideLeaf ==
    pc # "new" =>
        \A k \in 1..Len(edges) :
            LET u == verts[edges[k].source]
                v == verts[edges[k].target]
            IN ~(u.node # 0 /\ u.node = v.node /\ nodes[u.node].leaf)

\* The router is built, a leaf owns its crossing and a port on the same
\* line, and some edge runs between two vertices owned by one group.
C7_Witness ==
    /\ pc = "ready"
    /\ \E i, j \in 1..Len(verts) :
            /\ i # j
            /\ verts[i].node \in LeafIds
            /\ verts[i].node = verts[j].node
            /\ verts[i].y = verts[j].y
    /\ \E k \in 1..Len(edges) :
            /\ verts[edges[k].source].node \in GroupIds
            /\ verts[edges[k].source].node = verts[edges[k].target].node

\* The crossing vertices: the first |hlines| * |vlines| of this.verts, made
\* of |rows| + |rows| + 1 horizontal and |cols| + |cols| + 1 vertical lines.
CrossingIds == 1..((2 * Len(rows) + 1) * (2 * Len(cols) + 1))

\* C8: every leaf owns exactly one crossing vertex, and it lies at the centre
\* of the leaf's rectangle.
C8_LeafOwnsItsCentre ==
    pc # "new" =>
        \A l \in LeafIds :
            LET owned == {k \in CrossingIds : verts[k].node = l}
            IN /\ Cardinality(owned) = 1
               /\ \A k \in owned :
                    /\ 2 * verts[k].x = nodes[l].rect.x + nodes[l].rect.X
                    /\ 2 * verts[k].y = nodes[l].rect.y + nodes[l].rect.Y

\* The descendant leaves of group g.
DescendantLeaves(ns, g) ==
    {l \in 1..Len(ns) : ns[l].leaf /\ g \in Ancestry(ns, l)}

\* The groups on the parent chain of l up to and including g.
GroupsUpTo(ns, l, g) == {x \in Ancestry(ns, l) \ {l} : g \in Ancestry(ns, x)}

\* The union of the rectangles rs[l] of the leaves l in ls.
RECURSIVE UnionOver(_, _)
UnionOver(rs, ls) ==
    IF ls = {} THEN EmptyRect
    ELSE LET l == CHOOSE x \in ls : TRUE
         IN runion(UnionOver(rs, ls \ {l}), rs[l])

\* C9 as stated: every group's rectangle is the union of its descendant
\* leaves' rectangles, inflated once by groupPadding.
C9_InflatedOnce ==
    pc # "new" =>
        \A g \in GroupIds :
            nodes[g].rect =
                rinflate(UnionOver([l \in NodeIds |-> nodes[l].rect],
                                   DescendantLeaves(nodes, g)),
                         DefaultGroupPadding)

\* C9, amended: every group's rectangle is the union of its descendant
\* leaves' rectangles, each inflated by groupPadding once for every group on
\* the chain from the leaf up to and including this group.
C9_InflatedPerLevel ==
    pc # "new" =>
        \A g \in GroupIds :
            nodes[g].rect =
                UnionOver([l \in NodeIds |->
                              rinflate(nodes[l].rect,
                                       DefaultGroupPadding
                                         * Cardinality(GroupsUpTo(nodes, l, g)))],
                          DescendantLeaves(nodes, g))

\* The router is built over a group whose child is itself a group.
C9_Witness ==
    /\ pc = "ready"
    /\ \E g \in GroupIds : \E c \in SeqSet(nodes[g].children) : c \in GroupIds

\* A parent chain of the hierarchy handed in comes back to where it started.
cyclicHierarchy(original) ==
    \E v \in 1..Len(original) : getDepthNeverEnds(parentsOf(original), v)

\* C11: construction over a hierarchy with a cycle in getChildren terminates
\* and reports InvalidHierarchy; it never loops in the depth or lineage walk.
C11_CycleReported ==
    (pc # "new" /\ cyclicHierarchy(originalnodes)) => pc = "invalidHierarchy"

\* route has been called with an index that is not one of a node.
OutOfRangeCall == call.op = "route" /\ (call.a \notin NodeIds \/ call.b \notin NodeIds)

\* C12: route(s, t) with s or t outside the indices of the nodes fails with an
\* error, returns no path and leaves the graph as it was.
C12_OutOfRangeFails ==
    [][(pc = "ready" /\ OutOfRangeCall')
         => /\ pc' = "threw"
            /\ ret' = <<>>
            /\ UNCHANGED <<nodes, root, cols, rows, backToFront, verts, edges>>]_vars

\* route has thrown on a call with one index of a group and one index past
\* the end of the nodes.
C12_Witness ==
    /\ pc = "threw"
    /\ OutOfRangeCall
    /\ call.a \in GroupIds
    /\ call.b = Len(nodes) + 1
    /\ Len(verts) > 0

\* The vertices joined to those of seen by edges of es.
RECURSIVE reachableFrom(_, _)
reachableFrom(es, seen) ==
    LET next == seen \cup UNION {neighboursOf(es, v) : v \in seen}
    IN IF next = seen THEN seen ELSE reachableFrom(es, next)

\* route has searched a passable subgraph in which no path joins the first
\* port of the source to the first port of the target.
SearchedDisconnected ==
    /\ call.op = "route"
    /\ pc \in {"returned", "threw", "disconnected"}
    /\ ~OutOfRangeCall
    /\ Len(nodes[call.a].ports) > 0
    /\ Len(nodes[call.b].ports) > 0
    /\ nodes[call.b].ports[1]
         \notin reachableFrom(passableEdges, {nodes[call.a].ports[1]})

\* C13: when the passable subgraph has no path from the source's ports to the
\* target's ports, route surfaces a result that tells the caller so: it
\* neither throws nor returns a point sequence as for a route found.
C13_DisconnectedSurfaced == SearchedDisconnected => pc = "disconnected"

\* route has got as far as its search: on indices of nodes whose lineages differ.
RouteSearched ==
    call.op = "route" /\ pc \in {"returned", "threw"} /\ ~OutOfRangeCall

\* e is a zero-length edge from the first port of node v to another port of v.
LinksFirstPort(e, v) ==
    /\ e.length = 0
    /\ Len(nodes[v].ports) > 0
    /\ e.source = nodes[v].ports[1]
    /\ e.target \in PortsOf(v) \ {nodes[v].ports[1]}

\* C16: in route(s, t) every edge of the grid graph kept as passable has
\* neither endpoint owned by a node of siblingObstacles(s, t); the only other
\* edges offered to the search are zero-length edges from the first port of s
\* to each other port of s and from the first port of t to each other port
\* of t.
C16_PassableEdges ==
    RouteSearched =>
        LET obs == siblingObstacles(nodes, root, call.a, call.b)
            offered == SeqSet(passableEdges)
        IN /\ \A e \in offered :
                \/ /\ InSeq(e, edges)
                   /\ ~InSeq(verts[e.source].node, obs)
                   /\ ~InSeq(verts[e.target].node, obs)
                \/ LinksFirstPort(e, call.a)
                \/ LinksFirstPort(e, call.b)
           /\ \A v \in {call.a, call.b} :
                \A k \in 2..Len(nodes[v].ports) :
                    [source |-> nodes[v].ports[1], target |-> nodes[v].ports[k],
                     length |-> 0] \in offered

\* route has searched with an obstacle that cost the graph an edge, between
\* two nodes of three ports or more.
C16_Witness ==
    /\ RouteSearched
    /\ pc = "returned"
    /\ Len(obstacles) > 0
    /\ \E k \in 1..Len(edges) : ~InSeq(edges[k], passableEdges)
    /\ Len(nodes[call.a].ports) >= 3
    /\ Len(nodes[call.b].ports) >= 3

\* Twice the centre of leaf l on the axis.
TwiceCentre(axis, l) ==
    IF axis = "x" THEN nodes[l].rect.x + nodes[l].rect.X
    ELSE nodes[l].rect.y + nodes[l].rect.Y

\* The bands cover the leaves exactly once, none is empty, each lies at the
\* mean of its members' centres, and they are in non-decreasing order.
BandsInOrder(axis, bands) ==
    /\ \A l \in LeafIds :
            Cardinality({k \in 1..Len(bands) : InSeq(l, bands[k].members)}) = 1
    /\ \A k \in 1..Len(bands) :
            /\ Len(bands[k].members) > 0
            /\ SeqSet(bands[k].members) \subseteq LeafIds
            /\ Cardinality(SeqSet(bands[k].members)) = Len(bands[k].members)
            /\ 2 * Len(bands[k].members) * bands[k].pos
                 = SumSeq([i \in 1..Len(bands[k].members) |->
                             TwiceCentre(axis, bands[k].members[i])])
    /\ \A k \in 1..(Len(bands) - 1) : bands[k].pos <= bands[k + 1].pos

\* C17: getGridDim(axis) returns bands such that every leaf is in exactly one
\* band, no band is empty, each band's coordinate is the mean of its members'
\* centres, and the bands are in non-decreasing order of that coordinate.
C17_BandsCoverLeaves ==
    Len(nodes) > 0 => BandsInOrder("x", cols) /\ BandsInOrder("y", rows)

\* The router is built over three leaves, two of which share a column band
\* without sharing a centre.
C17_Witness ==
    /\ pc = "ready"
    /\ Len(cols) >= 2
    /\ \E k \in 1..Len(cols) :
            \E a, b \in SeqSet(cols[k].members) :
                TwiceCentre("x", a) # TwiceCentre("x", b)

\* The order in which the constructor computed the group rectangles.
RectOrder == frontToBackGroups(nodes, backToFront)

\* C19: group rectangles are computed deepest first: every child of a group
\* that is itself a group had its rectangle computed before the group's, and
\* the group's rectangle is the union of its direct children's final
\* rectangles inflated by groupPadding.
C19_DeepestFirst ==
    Len(nodes) > 0 =>
        \A g \in GroupIds :
            /\ \A c \in SeqSet(nodes[g].children) \cap GroupIds :
                    IndexOf(c, RectOrder) < IndexOf(g, RectOrder)
            /\ nodes[g].rect =
                    rinflate(UnionOver([l \in NodeIds |-> nodes[l].rect],
                                       SeqSet(nodes[g].children)),
                             DefaultGroupPadding)

\* The router is built over a group that holds a leaf and a group of two
\* leaves, the inner group having come first.
C19_Witness ==
    /\ pc = "ready"
    /\ \E g \in GroupIds :
            /\ SeqSet(nodes[g].children) \cap LeafIds # {}
            /\ \E c \in SeqSet(nodes[g].children) \cap GroupIds :
                    /\ Len(nodes[c].children) = 2
                    /\ IndexOf(c, RectOrder) = 1

RouterIdle ==
    /\ pc = "idle"
    /\ originalnodes = <<>>
    /\ nodes = <<>>
    /\ root = [children |-> <<>>]
    /\ cols = <<>>
    /\ rows = <<>>
    /\ backToFront = <<>>
    /\ verts = <<>>
    /\ edges = <<>>
    /\ obstacles = <<>>
    /\ passableEdges = <<>>
    /\ call = [op |-> "none"]
    /\ ret = <<>>
    /\ ncalls = 0

SegInit ==
    /\ RouterIdle
    /\ segStage = "input"
    /\ path \in UNION {[1..n -> LatticePoints] : n \in 2..MaxPathLen}
    /\ segments = <<>>
    /\ resegments = <<>>
    /\ NudgeIdle
    /\ MidIdle
    /\ UpdIdle

MakeSegments ==
    /\ segStage = "input"
    /\ segments' = makeSegments(path)
    /\ segStage' = "segmented"
    /\ UNCHANGED <<path, resegments, routerVars, nudgeVars, midVars, updVars>>

MakeSegmentsAgain ==
    /\ segStage = "segmented"
    /\ resegments' = makeSegments(SegmentPoints(segments))
    /\ segStage' = "resegmented"
    /\ UNCHANGED <<path, segments, routerVars, nudgeVars, midVars, updVars>>

SegNext == MakeSegments \/ MakeSegmentsAgain

SpecSeg == SegInit /\ [][SegNext]_vars

NoPointTwice(p) == \A i, j \in 1..Len(p) : i # j => p[i] # p[j]

\* C10 as stated: makeSegments applied to the endpoints of makeSegments(p)
\* yields the same segments, for every point sequence p of two points or more.
C10_Idempotent == segStage = "resegmented" => resegments = segments

\* C10, amended: makeSegments applied to the endpoints of makeSegments(p)
\* yields the same segments, for every sequence p of two or more points with
\* integer coordinates in which no point occurs twice.
C10_IdempotentOnDistinctPoints ==
    (segStage = "resegmented" /\ NoPointTwice(path)) => resegments = segments

\* makeSegments has been applied twice to four or more distinct points that
\* it merged into two segments.
C10_Witness ==
    /\ segStage = "resegmented"
    /\ NoPointTwice(path)
    /\ Len(path) >= 4
    /\ Len(segments) = 2

\* The segments chain into the polyline of p: from its first point, each
\* ending where the next begins, to its last point.
ChainsAlong(segs, p) ==
    /\ Len(segs) >= 1
    /\ segs[1][1] = copyPoint(p[1])
    /\ \A k \in 1..(Len(segs) - 1) : segs[k][2] = segs[k + 1][1]
    /\ segs[Len(segs)][2] = copyPoint(p[Len(p)])

\* Points a, b and c with whole coordinates lie on one line.
Collinear(a, b, c) == (b.x - a.x) * (c.y - a.y) = (b.y - a.y) * (c.x - a.x)

\* No segment lies on the line of the segment before it.
NoStraightJoint(segs) ==
    \A k \in 1..(Len(segs) - 1) : ~Collinear(segs[k][1], segs[k][2], segs[k + 1][2])

\* C24 as stated: for every path of two points or more the segments of
\* makeSegments chain into the polyline of the path, and no two consecutive
\* segments are collinear.
C24_ChainedAndMerged ==
    segStage = "segmented" =>
        ChainsAlong(segments, path) /\ NoStraightJoint(segments)

\* C24, amended: for every path of two or more points with integer
\* coordinates in which no point occurs twice, the segments of makeSegments
\* chain into the polyline of the path, and no two consecutive segments are
\* collinear.
C24_ChainedAndMergedOnDistinctPoints ==
    (segStage = "segmented" /\ NoPointTwice(path)) =>
        ChainsAlong(segments, path) /\ NoStraightJoint(segments)

\* makeSegments has merged a straight run of a path of distinct points that
\* also has a bend.
C24_Witness ==
    /\ segStage = "segmented"
    /\ NoPointTwice(path)
    /\ Len(segments) >= 2
    /\ Len(segments) < Len(path) - 1

--------------------------------------------------------------------------
(* The longest run two routes share (LongestCommonSubsequence) *)

\* l[i][j]: the length of the common run that ends with s[i] and t[j].
RECURSIVE runLength(_, _, _, _)
runLength(s, t, i, j) ==
    IF s[i] # t[j] THEN 0
    ELSE IF i = 1 \/ j = 1 THEN 1
    ELSE runLength(s, t, i - 1, j - 1) + 1

\* The first cell of the table l, rows first, that holds the run length v.
firstCellWith(l, v) ==
    CHOOSE c \in DOMAIN l :
        /\ l[c] = v
        /\ \A d \in DOMAIN l :
              l[d] = v => (c[1] < d[1] \/ (c[1] = d[1] /\ c[2] <= d[2]))

\* The match for the table l: the first run of the greatest length.
matchIn(l) ==
    LET v == CHOOSE v \in {l[c] : c \in DOMAIN l} : \A c \in DOMAIN l : l[c] <= v
        c == firstCellWith(l, v)
    IN IF v = 0 THEN [length |-> 0, si |-> 0, ti |-> 0]
       ELSE [length |-> v, si |-> c[1] - v + 1, ti |-> c[2] - v + 1]

\* findMatch: the first longest run of s that is also a run of t; si and ti
\* are where it starts in s and in t (indices from 1, 0 when there is none).
findMatch(s, t) ==
    matchIn(Tabulated([c \in (1..Len(s)) \X (1..Len(t)) |->
                            runLength(s, t, c[1], c[2])]))

\* The constructor: the forward match unless the match with t reversed is
\* longer, and then with ti counted in t as it stands.
lcsOf(mf, mr, n) ==
    IF mf.length >= mr.length
    THEN [length |-> mf.length, si |-> mf.si, ti |-> mf.ti, reversed |-> FALSE]
    ELSE [length |-> mr.length, si |-> mr.si,
          ti |-> n - mr.ti - mr.length + 2, reversed |-> TRUE]

LongestCommonSubsequence(s, t) ==
    lcsOf(findMatch(s, t), findMatch(s, Reverse(t)), Len(t))

--------------------------------------------------------------------------
(* orderEdges *)

\* does the path a-b-c describe a left turn?
isLeft(a, b, c) ==
    ((b.x - a.x) * (c.y - a.y) - (b.y - a.y) * (c.x - a.x)) <= 0

\* An index that holds a point; any other reads undefined, and isLeft throws
\* on it.
holds(e, k) == 1 <= k /\ k <= Len(e)

\* The pair pushed for edges i and j whose paths e and f share the run lcs
\* only in part; the points read are [u, vi, vj] of e, e, f or e, f, e.
turnPair(i, j, u, vi, vj) ==
    IF isLeft(u, vi, vj) THEN <<j, i>> ELSE <<i, j>>

\* The ordering decision for paths e and f, f already turned to run the way
\* of e: st with the pair pushed, or with threw set.
decided(st, i, j, e, f, lcs) ==
    IF lcs.length = Len(e) \/ lcs.length = Len(f)
    THEN [st EXCEPT !.pairs = @ \cup {<<i, j>>}]
    ELSE IF (lcs.si - 1) + lcs.length >= Len(e) \/ (lcs.ti - 1) + lcs.length >= Len(f)
    THEN IF holds(e, lcs.si + 1) /\ holds(e, lcs.si - 1) /\ holds(f, lcs.ti - 1)
         THEN [st EXCEPT !.pairs = @ \cup
                  {turnPair(i, j, e[lcs.si + 1], f[lcs.ti - 1], e[lcs.si - 1])}]
         ELSE [st EXCEPT !.threw = TRUE]
    ELSE IF holds(e, lcs.si + lcs.length - 2)
         THEN [st EXCEPT !.pairs = @ \cup
                  {turnPair(i, j, e[lcs.si + lcs.length - 2],
                            e[lcs.si + lcs.length], f[lcs.ti + lcs.length])}]
         ELSE [st EXCEPT !.threw = TRUE]

\* st after f.reverse() on edge j.
turned(st, j) == [st EXCEPT !.edges[j] = Reverse(@)]

aligned(st, i, j) ==
    decided(st, i, j, st.edges[i], st.edges[j],
            LongestCommonSubsequence(st.edges[i], st.edges[j]))

\* The body of the inner loop for edges i < j.
orderPair(st, i, j, lcs) ==
    IF lcs.length = 0 THEN st
    ELSE IF lcs.reversed THEN aligned(turned(st, j), i, j)
    ELSE decided(st, i, j, st.edges[i], st.edges[j], lcs)

\* The two loops from (i, j) on; an exception ends them.
RECURSIVE orderEdgesFrom(_, _, _)
orderEdgesFrom(st, i, j) ==
    IF st.threw \/ i >= Len(st.edges) THEN st
    ELSE IF j > Len(st.edges) THEN orderEdgesFrom(st, i + 1, i + 2)
    ELSE orderEdgesFrom(
            orderPair(st, i, j,
                      LongestCommonSubsequence(st.edges[i], st.edges[j])),
            i, j + 1)

\* orderEdges(edges): the paths as it leaves them, the pairs of edgeOrder,
\* and whether it threw.
orderEdges(es) == orderEdgesFrom([edges |-> es, pairs |-> {}, threw |-> FALSE], 1, 2)

\* Mutant of leftOf: a pair is found whichever way round it was pushed.
leftOfEither(pairs, l, r) == <<l, r>> \in pairs \/ <<r, l>> \in pairs

\* getOrder(pairs)(l, r)
leftOf(pairs, l, r) == <<l, r>> \in pairs

--------------------------------------------------------------------------
(* getSegmentSets *)

\* A segment as the lists hold it: s.edgeid and s.i name routes[edgeid][i].
segmentRefs(rs) ==
    Flatten([ei \in 1..Len(rs) |->
                [si \in 1..Len(rs[ei]) |-> [edgeid |-> ei, i |-> si]]])

segOf(rs, s) == rs[s.edgeid][s.i]

\* The segments with Math.abs(s[1][x] - s[0][x]) < 0.1, in the order pushed.
vsegmentsOf(rs, x) ==
    SelectSeq(segmentRefs(rs),
              LAMBDA s : Abs(segOf(rs, s)[2][x] - segOf(rs, s)[1][x]) * 10 < 1)

\* vsegments.sort((a, b) => a[0][x] - b[0][x])
sortedByPos(rs, x, vs) ==
    SortByKey(vs, [k \in 1..Len(vs) |-> segOf(rs, vs[k])[1][x]])

\* The grouping loop from vsegments[k] on.
RECURSIVE segmentSetsFrom(_, _, _, _, _)
segmentSetsFrom(rs, x, vs, k, sets) ==
    IF k > Len(vs) THEN sets
    ELSE IF Len(sets) = 0
            \/ Abs(segOf(rs, vs[k])[1][x] - sets[Len(sets)].pos) * 10 > 1
    THEN segmentSetsFrom(rs, x, vs, k + 1,
            Append(sets, [pos |-> segOf(rs, vs[k])[1][x], segments |-> <<vs[k]>>]))
    ELSE segmentSetsFrom(rs, x, vs, k + 1,
            [sets EXCEPT ![Len(sets)].segments = Append(@, vs[k])])

getSegmentSets(rs, x) ==
    segmentSetsFrom(rs, x, sortedByPos(rs, x, vsegmentsOf(rs, x)), 1, <<>>)

--------------------------------------------------------------------------
(* vpsc: variables at desired positions under separation constraints *)

RECURSIVE SumOver(_, _)
SumOver(S, f) ==
    IF S = {} THEN 0
    ELSE LET v == CHOOSE v \in S : TRUE IN f[v] + SumOver(S \ {v}, f)

\* The offsets the constraints of A, held with equality, give the variables
\* of a block, from the variables f already has an offset for.
RECURSIVE offsetsFrom(_, _, _)
offsetsFrom(A, gap, f) ==
    LET ext == {c \in A : (c[1] \in DOMAIN f) # (c[2] \in DOMAIN f)}
    IN IF ext = {} THEN f
       ELSE LET c == CHOOSE c \in ext : TRUE
            IN offsetsFrom(A, gap,
                    IF c[1] \in DOMAIN f THEN f @@ (c[2] :> f[c[1]] + gap)
                    ELSE f @@ (c[1] :> f[c[2]] - gap))

\* Where the least squares put a variable whose block has the offsets o from
\* it: the mean of desired position less offset over the block.
blockPosition(d, o) ==
    SumOver(DOMAIN o, [v \in DOMAIN o |-> d[v] - o[v]]) \div Cardinality(DOMAIN o)

\* The positions nearest the desired ones d with the constraints of A tight.
\* They are whole numbers as long as the size of every block divides gap.
placedWith(A, gap, d) ==
    Tabulated([i \in 1..Len(d) |-> blockPosition(d, offsetsFrom(A, gap, i :> 0))])

\* left + gap <= right, for every constraint <<left, right>>.
satisfies(p, cs, gap) == \A c \in cs : p[c[1]] + gap <= p[c[2]]

cost(p, d) == SumOver(1..Len(d), [i \in 1..Len(d) |-> (p[i] - d[i]) * (p[i] - d[i])])

\* The optimum is the placement for its own active set, so it is among these.
candidates(cs, gap, d) ==
    {p \in {placedWith(A, gap, d) : A \in SUBSET cs} : satisfies(p, cs, gap)}

\* Solver.solve(): the positions of least squared displacement that satisfy
\* the constraints; when no positions satisfy them all, a constraint that
\* cannot be met is given up, whichever it is.
RECURSIVE solutions(_, _, _)
solutionsAmong(C, cs, gap, d) ==
    IF C # {} THEN {p \in C : \A q \in C : cost(p, d) <= cost(q, d)}
    ELSE UNION {solutions(cs \ {c}, gap, d) : c \in cs}

solutions(cs, gap, d) == solutionsAmong(candidates(cs, gap, d), cs, gap, d)

--------------------------------------------------------------------------
(* nudgeSegs and nudgeSegments *)

increasing(rs, y, s) == segOf(rs, s)[1][y] < segOf(rs, s)[2][y]

\* The constraint <<lind, rind>> for segments i and j when the edge of i is
\* left of the edge of j; inc: segment i runs increasing along y.
constraintOf(x, inc, i, j) ==
    IF x = "x" THEN (IF inc THEN <<j, i>> ELSE <<i, j>>)
    ELSE (IF inc THEN <<i, j>> ELSE <<j, i>>)

constraintsOf(rs, x, y, segs, pairs) ==
    {constraintOf(x, increasing(rs, y, segs[c[1]]), c[1], c[2]) :
        c \in {c \in (1..Len(segs)) \X (1..Len(segs)) :
                  /\ c[1] # c[2]
                  /\ leftOf(pairs, segs[c[1]].edgeid, segs[c[2]].edgeid)}}

\* Mutant of atPos: the position is written to the ends of s alone.
atPosOwnEnds(rs, x, s, pos) ==
    [rs EXCEPT ![s.edgeid][s.i] =
        <<[@[1] EXCEPT ![x] = pos], [@[2] EXCEPT ![x] = pos]>>]

\* s[0][x] = s[1][x] = pos, and the ends the neighbours of s share with it.
atPos(rs, x, s, pos) ==
    [rs EXCEPT ![s.edgeid] =
        [k \in 1..Len(@) |->
            IF k = s.i THEN <<[@[k][1] EXCEPT ![x] = pos], [@[k][2] EXCEPT ![x] = pos]>>
            ELSE IF k = s.i - 1 THEN <<@[k][1], [@[k][2] EXCEPT ![x] = pos]>>
            ELSE IF k = s.i + 1 THEN <<[@[k][1] EXCEPT ![x] = pos], @[k][2]>>
            ELSE @[k]]]

\* vs.forEach(...) from variable k on.
RECURSIVE written(_, _, _, _, _)
written(rs, x, segs, pos, k) ==
    IF k > Len(segs) THEN rs
    ELSE written(atPos(rs, x, segs[k], pos[k]), x, segs, pos, k + 1)

\* The open set as nudgeSegs receives it.
handed(rs, x, y, segs) ==
    [axis |-> x, segments |-> segs,
     increasing |-> [k \in 1..Len(segs) |-> increasing(rs, y, segs[k])]]

\* nudgeSegs: every state it may leave, st holding the routes and the open
\* sets handed over so far.
nudgeSegs(st, x, y, segs, pairs, gap) ==
    IF Len(segs) <= 1
    THEN {[st EXCEPT !.bundles = Append(@, handed(st.routes, x, y, segs))]}
    ELSE {[routes |-> written(st.routes, x, segs, pos, 1),
           bundles |-> Append(st.bundles, handed(st.routes, x, y, segs))] :
            pos \in solutions(constraintsOf(st.routes, x, y, segs, pairs), gap,
                              [k \in 1..Len(segs) |-> segOf(st.routes, segs[k])[1][x]])}

\* events.push({type: 0, ...}); events.push({type: 1, ...})
eventsOf(rs, y, segs) ==
    Flatten([j \in 1..Len(segs) |->
        <<[type |-> 0, s |-> segs[j],
           pos |-> Min2(segOf(rs, segs[j])[1][y], segOf(rs, segs[j])[2][y])],
          [type |-> 1, s |-> segs[j],
           pos |-> Max2(segOf(rs, segs[j])[1][y], segOf(rs, segs[j])[2][y])]>>])

\* events.sort((a, b) => a.pos - b.pos + a.type - b.type): by pos + type.
sortedEvents(ev) == SortByKey(ev, [k \in 1..Len(ev) |-> ev[k].pos + ev[k].type])

\* The sweep from event k on: the open sets in the order they are closed.
RECURSIVE sweep(_, _, _, _, _)
sweep(ev, k, open, openCount, out) ==
    IF k > Len(ev) THEN out
    ELSE IF ev[k].type = 0
    THEN sweep(ev, k + 1, Append(open, ev[k].s), openCount + 1, out)
    ELSE IF openCount - 1 = 0
    THEN sweep(ev, k + 1, <<>>, 0, Append(out, open))
    ELSE sweep(ev, k + 1, open, openCount - 1, out)

openSets(rs, y, ss) == sweep(sortedEvents(eventsOf(rs, y, ss.segments)), 1, <<>>, 0, <<>>)

\* nudgeSegs on the open sets of one segment set, from the k-th on.
RECURSIVE nudgedOpenSets(_, _, _, _, _, _, _)
nudgedOpenSets(S, x, y, opens, k, pairs, gap) ==
    IF k > Len(opens) THEN S
    ELSE nudgedOpenSets(
            UNION {nudgeSegs(st, x, y, opens[k], pairs, gap) : st \in S},
            x, y, opens, k + 1, pairs, gap)

\* The loop of nudgeSegments over the segment sets, from the i-th on.
RECURSIVE nudgedSets(_, _, _, _, _, _, _)
nudgedSets(S, x, y, sets, i, pairs, gap) ==
    IF i > Len(sets) THEN S
    ELSE nudgedSets(
            UNION {nudgedOpenSets({st}, x, y, openSets(st.routes, y, sets[i]), 1,
                                  pairs, gap) : st \in S},
            x, y, sets, i + 1, pairs, gap)

\* nudgeSegments(routes, x, y, leftOf, gap): every state it may leave.
nudgeSegments(st, x, y, pairs, gap) ==
    nudgedSets({st}, x, y, getSegmentSets(st.routes, x), 1, pairs, gap)

--------------------------------------------------------------------------
(* routeEdges, from the routes on *)

\* Bound: the most edges routeEdges is given.
MaxEdges == 3

\* Bound: the most points the routes of one call have together.
MaxPoints == 9

\* gap, the argument of routeEdges.
Gap == 60

\* The distance between neighbouring grid lines of the corridor.
Pitch == 600

\* The vertices of the corridor the routes run in: two grid lines across,
\* four along.
CorridorXs == 0..1
CorridorYs == 0..3
CorridorVerts ==
    [k \in 1..(Cardinality(CorridorXs) * Cardinality(CorridorYs)) |->
        [id |-> k, x |-> ((k - 1) \div Cardinality(CorridorYs)) * Pitch,
         y |-> ((k - 1) % Cardinality(CorridorYs)) * Pitch, node |-> 0]]
CorridorPoints == {CorridorVerts[k] : k \in DOMAIN CorridorVerts}

\* The first ports of the nodes the edges leave: two corners of the corridor.
SourcePorts == {CorridorVerts[1], CorridorVerts[Len(CorridorVerts)]}

adjacent(p, q) == Abs(p.x - q.x) + Abs(p.y - q.y) = Pitch

\* What route can return along the corridor: the paths of n vertices from a
\* source port, from vertex to neighbouring vertex, through no vertex twice.
RECURSIVE pathsOfLen(_)
pathsOfLen(n) ==
    IF n = 1 THEN {<<q>> : q \in SourcePorts}
    ELSE UNION {{Append(p, q) : q \in {q \in CorridorPoints :
                                          adjacent(p[Len(p)], q) /\ ~InSeq(q, p)}} :
                  p \in pathsOfLen(n - 1)}

\* The route lists of k edges with no more than budget points together.
RECURSIVE routeLists(_, _)
routeLists(k, budget) ==
    IF k = 0 THEN {<<>>}
    ELSE UNION {{<<p>> \o rest : rest \in routeLists(k - 1, budget - Len(p))} :
                  p \in UNION {pathsOfLen(n) : n \in 2..budget}}

SegIdle ==
    /\ segStage = "idle"
    /\ path = <<>>
    /\ segments = <<>>
    /\ resegments = <<>>

\* edges.map(e => this.route(source(e), target(e))) has returned.
NudgeInit ==
    /\ pc = "idle"
    /\ originalnodes = <<>>
    /\ nodes = <<>>
    /\ root = [children |-> <<>>]
    /\ cols = <<>>
    /\ rows = <<>>
    /\ backToFront = <<>>
    /\ verts = CorridorVerts
    /\ edges = <<>>
    /\ obstacles = <<>>
    /\ passableEdges = <<>>
    /\ call = [op |-> "none"]
    /\ ret = <<>>
    /\ ncalls = 0
    /\ SegIdle
    /\ nudgeStage = "routed"
    /\ routePaths \in UNION {routeLists(k, MaxPoints) : k \in 1..MaxEdges}
    /\ edgeOrder = {}
    /\ routes = <<>>
    /\ bundles = <<>>
    /\ MidIdle
    /\ UpdIdle

\* What orderEdges left behind: the paths, some reversed, and the order.
Ordered(r) ==
    /\ routePaths' = r.edges
    /\ edgeOrder' = IF r.threw THEN {} ELSE r.pairs
    /\ nudgeStage' = IF r.threw THEN "threw" ELSE "ordered"

\* var order = GridRouter.orderEdges(routePaths)
OrderEdges ==
    /\ nudgeStage = "routed"
    /\ Ordered(orderEdges(routePaths))
    /\ UNCHANGED <<routes, bundles, routerVars, segVars,
                   midVars, updVars>>

\* var routes = routePaths.map(e => GridRouter.makeSegments(e))
MakeRoutes ==
    /\ nudgeStage = "ordered"
    /\ routes' = [k \in 1..Len(routePaths) |-> makeSegments(routePaths[k])]
    /\ nudgeStage' = "segmented"
    /\ UNCHANGED <<routePaths, edgeOrder, bundles, routerVars, segVars,
                   midVars, updVars>>

\* The segment ends of rs that are the vertex v itself, not a clone of it,
\* and were written to.
writtenEndsAt(rs, v) ==
    {p \in UNION {UNION {{rs[e][i][1], rs[e][i][2]} : i \in 1..Len(rs[e])} :
                    e \in 1..Len(rs)} :
        /\ "id" \in DOMAIN p
        /\ p.id = v.id
        /\ (p.x # v.x \/ p.y # v.y)}

\* The vertices after the writes of nudgeSegs: a write to a segment end that
\* is a vertex of the graph is a write to the graph.
writtenThrough(vs, rs) ==
    [k \in 1..Len(vs) |->
        IF writtenEndsAt(rs, vs[k]) = {} THEN vs[k]
        ELSE LET p == CHOOSE q \in writtenEndsAt(rs, vs[k]) : TRUE
             IN [vs[k] EXCEPT !.x = p.x, !.y = p.y]]

Nudged(st) ==
    /\ routes' = st.routes
    /\ bundles' = st.bundles
    /\ verts' = writtenThrough(verts, st.routes)

\* GridRouter.nudgeSegments(routes, 'x', 'y', order, gap)
NudgeX ==
    /\ nudgeStage = "segmented"
    /\ \E st \in nudgeSegments([routes |-> routes, bundles |-> bundles],
                               "x", "y", edgeOrder, Gap) : Nudged(st)
    /\ nudgeStage' = "nudgedX"
    /\ UNCHANGED <<routePaths, edgeOrder, pc, originalnodes, nodes, root, cols,
                   rows, backToFront, edges, obstacles, passableEdges, call,
                   ret, ncalls, segVars, midVars, updVars>>

\* GridRouter.nudgeSegments(routes, 'y', 'x', order, gap)
NudgeY ==
    /\ nudgeStage = "nudgedX"
    /\ \E st \in nudgeSegments([routes |-> routes, bundles |-> bundles],
                               "y", "x", edgeOrder, Gap) : Nudged(st)
    /\ nudgeStage' = "nudgedY"
    /\ UNCHANGED <<routePaths, edgeOrder, pc, originalnodes, nodes, root, cols,
                   rows, backToFront, edges, obstacles, passableEdges, call,
                   ret, ncalls, segVars, midVars, updVars>>

NudgeNext == OrderEdges \/ MakeRoutes \/ NudgeX \/ NudgeY

SpecNudge == NudgeInit /\ [][NudgeNext]_vars

\* The resolved coordinate of segment s on the axis its bundle was nudged on.
resolved(b, k) == segOf(routes, b.segments[k])[1][b.axis]

BundleIds == 1..Len(bundles)

\* C5: after routeEdges, any two segments that were handed to nudgeSegs in
\* one open set have coordinates on the nudged axis at least gap apart.
C5_BundleApartByGap ==
    nudgeStage = "nudgedY" =>
        \A n \in BundleIds :
            \A i, j \in 1..Len(bundles[n].segments) :
                i # j => Abs(resolved(bundles[n], i) - resolved(bundles[n], j)) >= Gap

\* C6: after routeEdges, any two segments s1, s2 of one open set whose edges
\* satisfy leftOf(edge(s1), edge(s2)) keep that precedence: the one that has
\* to be on the left, by the direction of s1 and the axis, is at least gap
\* before the other.
C6_BundleKeepsPrecedence ==
    nudgeStage = "nudgedY" =>
        \A n \in BundleIds :
            \A i, j \in 1..Len(bundles[n].segments) :
                (/\ i # j
                 /\ leftOf(edgeOrder, bundles[n].segments[i].edgeid,
                                      bundles[n].segments[j].edgeid))
                => resolved(bundles[n],
                        constraintOf(bundles[n].axis, bundles[n].increasing[i], i, j)[1])
                   + Gap
                   <= resolved(bundles[n],
                        constraintOf(bundles[n].axis, bundles[n].increasing[i], i, j)[2])

\* C14: once the router is constructed, no call to route, siblingObstacles or
\* routeEdges changes the grid graph: the vertices, the edges, and every
\* node's rectangle, parent, children and ports stay as they are; the nudged
\* coordinates are written to cloned points only.
C14_GraphUnchanged ==
    [][pc # "new" => UNCHANGED <<nodes, root, verts, edges>>]_vars

\* routeEdges has nudged the first point of some route away from the vertex
\* it was cloned from.
C14_Witness ==
    /\ nudgeStage = "nudgedY"
    /\ \E k \in 1..Len(routes) :
            \/ routes[k][1][1].x # routePaths[k][1].x
            \/ routes[k][1][1].y # routePaths[k][1].y

\* routeEdges on the paths route returned: every list of routes it may
\* return; none when orderEdges throws.
routeEdgesOf(paths, gap) ==
    IF orderEdges(paths).threw THEN {}
    ELSE {st.routes :
            st \in UNION {nudgeSegments(sx, "y", "x", orderEdges(paths).pairs, gap) :
                sx \in nudgeSegments(
                    [routes |-> [k \in 1..Len(paths) |->
                                    makeSegments(orderEdges(paths).edges[k])],
                     bundles |-> <<>>],
                    "x", "y", orderEdges(paths).pairs, gap)}}

\* route has returned the path of an edge between the two leaves of a layout
\* of two equal leaves side by side in one row.
RoutedSideBySide ==
    /\ RouteReturned
    /\ originalnodes = LayoutRow
    /\ call.a # call.b

\* C15: for two equal top-level leaves side by side in one row and one edge
\* between them, routeEdges returns a route of one straight horizontal
\* segment, and the two nudging passes leave its coordinates as they were.
C15_StraightAndUnnudged ==
    RoutedSideBySide =>
        /\ Len(makeSegments(ret)) = 1
        /\ \A k \in 1..Len(ret) : ~isNaN(ret[k].y) /\ ret[k].y = ret[1].y
        /\ routeEdgesOf(<<ret>>, Gap) = {<<makeSegments(ret)>>}

\* The runs of path p: its stretches of one or more consecutive points.
Runs(p) == {SubSeq(p, a, b) : a \in 1..Len(p), b \in 1..Len(p)} \ {<<>>}

\* The runs paths p and q share, q read either way.
SharedRuns(p, q) == Runs(p) \cap (Runs(q) \cup Runs(Reverse(q)))

\* A shared run is the whole of p or the whole of q.
SharedRunCovers(p, q) ==
    \E r \in SharedRuns(p, q) : Len(r) = Len(p) \/ Len(r) = Len(q)

\* orderEdges has returned its lookup.
OrderReturned == nudgeStage \in {"ordered", "segmented", "nudgedX", "nudgedY"}

\* C20: for the lookup leftOf that orderEdges returns, leftOf(i, i) never
\* holds; for i # j neither leftOf(i, j) nor leftOf(j, i) holds when paths i
\* and j share no run, and exactly one of them holds otherwise; when a shared
\* run is the whole of one of the two paths, leftOf(i, j) holds for i < j.
C20_LeftOfPerPair ==
    OrderReturned =>
        \A i, j \in 1..Len(routePaths) :
            /\ i = j => ~leftOf(edgeOrder, i, i)
            /\ (i # j /\ SharedRuns(routePaths[i], routePaths[j]) = {})
                 => ~leftOf(edgeOrder, i, j) /\ ~leftOf(edgeOrder, j, i)
            /\ (i # j /\ SharedRuns(routePaths[i], routePaths[j]) # {})
                 => leftOf(edgeOrder, i, j) # leftOf(edgeOrder, j, i)
            /\ (i < j /\ SharedRunCovers(routePaths[i], routePaths[j]))
                 => leftOf(edgeOrder, i, j)

\* orderEdges has returned for three paths: a pair that shares no point, a
\* pair of which one path is a run of the other, and a pair that shares a
\* run in part and has the higher index on the left.
C20_Witness ==
    /\ nudgeStage = "ordered"
    /\ Len(routePaths) = 3
    /\ \E i, j \in 1..3 : i # j /\ SharedRuns(routePaths[i], routePaths[j]) = {}
    /\ \E i, j \in 1..3 : i < j /\ SharedRunCovers(routePaths[i], routePaths[j])
    /\ \E i, j \in 1..3 :
            /\ i < j
            /\ ~SharedRunCovers(routePaths[i], routePaths[j])
            /\ leftOf(edgeOrder, j, i)

\* C30: orderEdges reads points at valid indices of the two paths only: the
\* points just before and just after the shared run that it hands to isLeft
\* exist, also when the run starts at index 0 of one path and ends with the
\* last point of the other, and when the run has length 1; so orderEdges
\* never throws on a read of an undefined point.
C30_ReadsInRange == nudgeStage # "threw"

\* The separation constraints <<left, right>> nudgeSegs built for bundle b.
bundleConstraints(b) ==
    {constraintOf(b.axis, b.increasing[c[1]], c[1], c[2]) :
        c \in {c \in (1..Len(b.segments)) \X (1..Len(b.segments)) :
                  /\ c[1] # c[2]
                  /\ leftOf(edgeOrder, b.segments[c[1]].edgeid,
                                       b.segments[c[2]].edgeid)}}

\* Some ranking of n variables puts left before right in every constraint:
\* the constraints have no cycle, and positions gap apart satisfy them.
Rankable(n, cs) == \E rank \in [1..n -> 1..n] : \A c \in cs : rank[c[1]] < rank[c[2]]

StrictPartialOrder(n, pairs) ==
    /\ \A i \in 1..n : <<i, i>> \notin pairs
    /\ \A i, j \in 1..n : ~(<<i, j>> \in pairs /\ <<j, i>> \in pairs)
    /\ \A i, j, k \in 1..n :
          (<<i, j>> \in pairs /\ <<j, k>> \in pairs) => <<i, k>> \in pairs

\* Every bundle handed to nudgeSegs has constraints without a cycle.
BundlesFeasible ==
    nudgeStage = "nudgedY" =>
        \A n \in BundleIds :
            Rankable(Len(bundles[n].segments), bundleConstraints(bundles[n]))

\* C21: the precedence relation orderEdges returns is a strict partial order
\* (irreflexive, antisymmetric, transitive), and for every bundle handed to
\* nudgeSegs the separation constraints var_i + gap <= var_j have no cycle,
\* so some positions satisfy them all.
C21_PrecedenceIsStrictOrder ==
    /\ OrderReturned => StrictPartialOrder(Len(routePaths), edgeOrder)
    /\ BundlesFeasible

\* The pass that has just ended, by the axis it nudged on.
PassEnded(axis) ==
    \/ axis = "x" /\ nudgeStage = "nudgedX"
    \/ axis = "y" /\ nudgeStage = "nudgedY"

Other(axis) == IF axis = "x" THEN "y" ELSE "x"

\* The extent of segment s along axis y: a pass leaves it as it was.
ExtentLow(s, y) == Min2(segOf(routes, s)[1][y], segOf(routes, s)[2][y])
ExtentHigh(s, y) == Max2(segOf(routes, s)[1][y], segOf(routes, s)[2][y])

\* The two extents have at least a point in common.
ExtentsOverlap(s, t, y) ==
    Max2(ExtentLow(s, y), ExtentLow(t, y)) <= Min2(ExtentHigh(s, y), ExtentHigh(t, y))

\* The segments across the axis: the ones getSegmentSets puts in a bucket.
BucketSegments(axis) ==
    {s \in SeqSet(segmentRefs(routes)) :
        segOf(routes, s)[1][axis] = segOf(routes, s)[2][axis]}

\* The bundles of the pass on the axis.
BundlesOn(axis) == {n \in BundleIds : bundles[n].axis = axis}

\* C22: in nudgeSegments every segment of a coordinate bucket is handed to
\* exactly one nudgeSegs call, and two segments are handed to the same call
\* only if their extents along the perpendicular axis overlap; segments with
\* disjoint extents, also when a chain of overlapping segments links them,
\* are never in one bundle.
C22_BundlesAreOverlaps ==
    \A axis \in {"x", "y"} :
        PassEnded(axis) =>
            /\ \A s \in BucketSegments(axis) :
                  Cardinality({<<n, k>> \in BundlesOn(axis) \X (1..MaxPoints) :
                                  /\ k <= Len(bundles[n].segments)
                                  /\ bundles[n].segments[k] = s}) = 1
            /\ \A n \in BundlesOn(axis) :
                  \A s, t \in SeqSet(bundles[n].segments) :
                      ExtentsOverlap(s, t, Other(axis))

\* Route r is a connected polyline of segments along the axes.
ConnectedAxisAligned(r) ==
    /\ \A k \in 1..(Len(r) - 1) :
          r[k][2].x = r[k + 1][1].x /\ r[k][2].y = r[k + 1][1].y
    /\ \A k \in 1..Len(r) : r[k][1].x = r[k][2].x \/ r[k][1].y = r[k][2].y

\* C23: after the x-pass and after the y-pass of routeEdges every route is
\* still a connected axis-aligned polyline: each segment ends where the next
\* begins, and the two ends of each segment agree in x or in y.
C23_RoutesStayConnected ==
    nudgeStage \in {"nudgedX", "nudgedY"} =>
        \A e \in 1..Len(routes) : ConnectedAxisAligned(routes[e])

\* Both passes have run, and a route with a bend has a segment that the
\* x-pass moved and a segment that the y-pass moved.
C23_Witness ==
    /\ nudgeStage = "nudgedY"
    /\ \E e \in 1..Len(routes) :
          /\ Len(routes[e]) >= 3
          /\ \E k, l \in 1..Len(routes[e]) :
                /\ routes[e][k][1].x = routes[e][k][2].x
                /\ routes[e][k][1].x \notin {c * Pitch : c \in CorridorXs}
                /\ routes[e][l][1].y = routes[e][l][2].y
                /\ routes[e][l][1].y \notin {c * Pitch : c \in CorridorYs}

\* The passable edges of a request for route(s, t), from the graph alone.
RequestEdges(s, t) ==
    passableEdgesOf(nodes, verts, edges, siblingObstacles(nodes, root, s, t), s, t)

\* C26: route(s, t) is history-independent: whatever calls were made on the
\* router before, its obstacles and passable edges are those of this request,
\* rebuilt from the graph, and the path it returns is one the graph and the
\* request alone determine.
C26_RouteHistoryIndependent ==
    (pc = "returned" /\ call.op = "route") =>
        /\ obstacles = siblingObstacles(nodes, root, call.a, call.b)
        /\ passableEdges = RequestEdges(call.a, call.b)
        /\ ret \in routeResults(nodes, verts, RequestEdges(call.a, call.b),
                                call.a, call.b)

\* A second request has returned a path around obstacles of its own.
C26_Witness ==
    /\ pc = "returned"
    /\ call.op = "route"
    /\ ncalls = 2
    /\ obstacles # <<>>
    /\ Len(ret) >= 2

\* C29: on an acyclic hierarchy siblingObstacles(a, b) and route(s, t) return
\* or throw for every pair of valid node indices, a = b and a an ancestor of
\* b included: no call is left comparing the lineages for ever.
C29_CallsTerminate ==
    ~cyclicHierarchy(originalnodes) => pc # "hung"

--------------------------------------------------------------------------
(* The constructor on hierarchies that list a node more than once *)

\* Bound: the longest list of children a group is given.
MaxListed == 3

\* The lists of children drawn from the ids S: ascending, one to MaxListed.
childLists(S) ==
    {l \in UNION {[1..n -> S] : n \in 1..MaxListed} :
        \A k \in 1..(Len(l) - 1) : l[k] < l[k + 1]}

\* Three leaves on a diagonal under two groups: group 4 lists any of the
\* leaves and group 5, group 5 any of the leaves.
ListedLayouts ==
    {<<LeafAt(0, 0), LeafAt(1, 1), LeafAt(2, 2), GroupOf(outer), GroupOf(inner)>> :
        outer \in childLists({1, 2, 3, 5}), inner \in childLists({1, 2, 3})}

LinksInit ==
    /\ pc = "new"
    /\ originalnodes \in ListedLayouts
    /\ nodes = <<>>
    /\ root = [children |-> <<>>]
    /\ cols = <<>>
    /\ rows = <<>>
    /\ backToFront = <<>>
    /\ verts = <<>>
    /\ edges = <<>>
    /\ obstacles = <<>>
    /\ passableEdges = <<>>
    /\ call = [op |-> "none"]
    /\ ret = <<>>
    /\ ncalls = 0
    /\ SegIdle
    /\ NudgeIdle
    /\ MidIdle
    /\ UpdIdle

SpecLinks == LinksInit /\ [][Construct]_vars

\* The groups that list node c among their children.
ListedBy(ns, c) == {g \in 1..Len(ns) : ~ns[g].leaf /\ InSeq(c, ns[g].children)}

\* C25: after construction the parent and children links agree: for every
\* group g and every index c in g.children, nodes[c].parent is g, also when
\* c is listed by two groups, and the children of the root sentinel are
\* exactly the ids of the nodes that no group lists.
C25_LinksAgree ==
    pc = "ready" =>
        /\ \A c \in 1..Len(nodes) : \A g \in ListedBy(nodes, c) : nodes[c].parent = g
        /\ SeqSet(root.children) = {c \in 1..Len(nodes) : ListedBy(nodes, c) = {}}
        /\ \A c \in 1..Len(nodes) : (nodes[c].parent = Root) = (ListedBy(nodes, c) = {})

--------------------------------------------------------------------------
(* midPoints on its own *)

\* Bound: the most bands midPoints is given.
MaxBands == 3

\* The positions the bands are drawn from.
BandPositions == {8 * k : k \in 0..6}

\* this.cols.map(r => r.x): one to n positions in increasing order.
RECURSIVE sortedCoords(_)
sortedCoords(n) ==
    IF n = 1 THEN {<<c>> : c \in BandPositions}
    ELSE {Append(a, c) : a \in sortedCoords(n - 1), c \in BandPositions}

MidInit ==
    /\ RouterIdle
    /\ SegIdle
    /\ NudgeIdle
    /\ midStage = "input"
    /\ coords \in {a \in UNION {sortedCoords(n) : n \in 1..MaxBands} :
                     \A k \in 1..(Len(a) - 1) : a[k] < a[k + 1]}
    /\ mids = <<>>
    /\ UpdIdle

\* var colMids = this.midPoints(this.cols.map(r => r.x))
MidPoints ==
    /\ midStage = "input"
    /\ mids' = midPoints(coords)
    /\ midStage' = "done"
    /\ UNCHANGED <<coords, routerVars, segVars, nudgeVars, updVars>>

SpecMid == MidInit /\ [][MidPoints]_vars

\* C18: midPoints of N sorted band positions, N >= 1, returns N + 1 positions,
\* each of them a number: half a gap before the first band, the midpoint of
\* every two neighbouring bands, and half a gap after the last band, the gap
\* at each end being the one between the two bands at that end.
C18_MidPointsWellDefined ==
    midStage = "done" =>
        /\ Len(mids) = Len(coords) + 1
        /\ \A k \in 1..Len(mids) : ~isNaN(mids[k])
        /\ \A k \in 1..(Len(coords) - 1) :
                2 * mids[k + 1] = coords[k] + coords[k + 1]
        /\ Len(coords) >= 2 =>
                /\ 2 * mids[1] = 2 * coords[1] - (coords[2] - coords[1])
                /\ 2 * mids[Len(mids)]
                     = 2 * coords[Len(coords)]
                       + (coords[Len(coords)] - coords[Len(coords) - 1])

--------------------------------------------------------------------------
(* The trace updater: VisibleFunctionUpdater *)

\* Bound: the function calls the interpreter steps into.
MaxEntered == 4

\* Bound: the greatest maxAllowedReturnNodes the Sequencer hands over.
MaxKept == 2

\* null, for a node.
NoNode == 0

last(s) == IF Len(s) = 0 THEN NoNode ELSE s[Len(s)]

\* nodes.pop() / links.pop()
popped(s) == SubSeq(s, 1, Len(s) - 1)

\* s.splice(start, count), start counted from 0: what is left of s.
spliced(s, start, count) ==
    SelectSeq([k \in 1..Len(s) |-> [at |-> k, item |-> s[k]]],
              LAMBDA e : e.at <= start \/ e.at > start + count)

itemsOf(kept) == [k \in 1..Len(kept) |-> kept[k].item]

getCallLink(source, target, linkState, index) ==
    [source |-> source, target |-> target, linkState |-> linkState,
     linkIndex |-> index]

\* The updater's own variables as one record.
Updater ==
    [nodes |-> visNodes, links |-> links, linkIndex |-> linkIndex,
     scopeChain |-> scopeChain, rootNode |-> rootNode,
     rootNodeIndex |-> rootNodeIndex, exitingNode |-> exitingNode,
     entered |-> entered, done |-> FALSE]

\* addEnteringFunction on a supported function call: the callee is pushed,
\* linked to its parent if there is one, and becomes the root if it is the
\* first node.
addEnteringFunction(u) ==
    [u EXCEPT
        !.rootNode = IF Len(u.nodes) = 0 THEN u.entered + 1 ELSE @,
        !.nodes = Append(@, u.entered + 1),
        !.links = IF last(u.scopeChain) # NoNode
                  THEN Append(@, getCallLink(last(u.scopeChain), u.entered + 1,
                                             "calling", u.linkIndex))
                  ELSE @,
        !.linkIndex = IF last(u.scopeChain) # NoNode THEN @ + 1 ELSE @,
        !.scopeChain = Append(@, u.entered + 1),
        !.entered = @ + 1,
        !.done = TRUE]

\* exitLink(last(links)): a function that returns a value gets a returning
\* link at the front; the calling link is popped either way.
exitLink(u, returnsValue) ==
    IF returnsValue
    THEN [u EXCEPT
            !.links = popped(<<getCallLink(last(u.links).target, last(u.links).source,
                                           "returning", u.linkIndex)>> \o @),
            !.linkIndex = @ + 1]
    ELSE [u EXCEPT !.links = popped(@)]

\* exitNode(exitingNode): nodes.pop(); nodes.unshift(exitingNode); rootNodeIndex++
exitNode(u) ==
    [u EXCEPT !.nodes = <<u.exitingNode>> \o popped(@),
              !.rootNodeIndex = @ + 1]

\* Mutant of removeOldestReturned: the removal starts at the root.
removeFromRoot(u, m) ==
    [u EXCEPT
        !.links = IF Len(u.nodes) > 1
                  THEN itemsOf(spliced(@, u.rootNodeIndex, u.rootNodeIndex - m))
                  ELSE @,
        !.nodes = itemsOf(spliced(@, u.rootNodeIndex, u.rootNodeIndex - m)),
        !.rootNodeIndex = m]

\* removeOldestReturned(nodes, links, maxAllowedReturnNodes)
removeOldestReturned(u, m) ==
    [u EXCEPT
        !.links = IF Len(u.nodes) > 1
                  THEN itemsOf(spliced(@, m, u.rootNodeIndex - m))
                  ELSE @,
        !.nodes = itemsOf(spliced(@, m, u.rootNodeIndex - m)),
        !.rootNodeIndex = m]

\* The first half of removeExitingFunction, on a supported return to the
\* caller: exitingNode = last(scopeChain), and its exit unless it is the root
\* or there is no link.
exited(u, returnsValue) ==
    IF Len(u.scopeChain) > 0 /\ last(u.scopeChain) = u.rootNode
    THEN [u EXCEPT !.exitingNode = NoNode]
    ELSE IF Len(u.links) = 0
    THEN [u EXCEPT !.exitingNode = last(u.scopeChain)]
    ELSE [exitNode(exitLink([u EXCEPT !.exitingNode = last(u.scopeChain)],
                            returnsValue))
            EXCEPT !.scopeChain = popped(@), !.done = TRUE]

trimmed(u, m) == IF u.rootNodeIndex > m THEN removeOldestReturned(u, m) ELSE u

removeExitingFunction(u, returnsValue, m) == trimmed(exited(u, returnsValue), m)

\* isFunctionReturnUnassigned, the part of updateEnteringFunction that
\* touches links: the returning link of an exiting node whose value is not
\* assigned is shifted off; exitingNode is forgotten.
updateEnteringFunction(u, assigned) ==
    IF Len(u.scopeChain) = 0 \/ u.exitingNode = NoNode THEN u
    ELSE [u EXCEPT
            !.links = IF ~assigned /\ Len(@) > 0 /\ @[1].source = u.exitingNode
                      THEN Tail(@) ELSE @,
            !.exitingNode = NoNode]

\* The interpreter states action() tells apart: a supported function call
\* about to be entered, a supported return to the caller, anything else.
StateKinds == {"call", "return", "other"}

\* doneAction = add || remove || update: the first that reports an update
\* ends the step.
actionOn(u, kind, returnsValue, assigned, m) ==
    IF kind = "call" THEN addEnteringFunction(u)
    ELSE IF kind = "return"
    THEN IF removeExitingFunction(u, returnsValue, m).done
         THEN removeExitingFunction(u, returnsValue, m)
         ELSE updateEnteringFunction(removeExitingFunction(u, returnsValue, m), assigned)
    ELSE updateEnteringFunction(u, assigned)

Updated(u) ==
    /\ visNodes' = u.nodes
    /\ links' = u.links
    /\ linkIndex' = u.linkIndex
    /\ scopeChain' = u.scopeChain
    /\ rootNode' = u.rootNode
    /\ rootNodeIndex' = u.rootNodeIndex
    /\ exitingNode' = u.exitingNode
    /\ entered' = u.entered

\* VisibleFunctionUpdater([], []), before the first action().
UpdInit ==
    /\ RouterIdle
    /\ SegIdle
    /\ NudgeIdle
    /\ MidIdle
    /\ updStage = "new"
    /\ visNodes = <<>>
    /\ links = <<>>
    /\ linkIndex = 0
    /\ prevState = FALSE
    /\ scopeChain = <<>>
    /\ rootNode = NoNode
    /\ rootNodeIndex = 0
    /\ exitingNode = NoNode
    /\ entered = 0
    /\ lastAction = [kind |-> "none", max |-> 0]

\* action(interpreter, maxAllowedReturnNodes): nothing is done before
\* prevState is set.
Action(kind, returnsValue, assigned, m) ==
    /\ updStage \in {"new", "running"}
    /\ kind = "call" => entered < MaxEntered
    /\ updStage' = "running"
    /\ lastAction' = [kind |-> kind, max |-> m]
    /\ IF prevState THEN Updated(actionOn(Updater, kind, returnsValue, assigned, m))
       ELSE Updated(Updater)
    /\ UNCHANGED <<prevState, routerVars, segVars, nudgeVars, midVars>>

\* nextStep: prevState = state
NextStep ==
    /\ updStage = "running"
    /\ ~prevState
    /\ prevState' = TRUE
    /\ UNCHANGED <<updStage, visNodes, links, linkIndex, scopeChain, rootNode,
                   rootNodeIndex, exitingNode, entered, lastAction, routerVars,
                   segVars, nudgeVars, midVars>>

UpdNext ==
    \/ \E kind \in StateKinds, returnsValue \in BOOLEAN, assigned \in BOOLEAN,
          m \in 0..MaxKept : Action(kind, returnsValue, assigned, m)
    \/ NextStep

SpecUpd == UpdInit /\ [][UpdNext]_vars

\* C27: once a root node exists, after any sequence of action() steps the
\* links array has exactly one item fewer than the nodes array.
C27_OneLinkFewer ==
    rootNode # NoNode => Len(links) = Len(visNodes) - 1

\* C28: removeOldestReturned deletes only returned nodes that were shifted in
\* front of the root: after any sequence of action() steps with any
\* non-negative maxAllowedReturnNodes, the root and every node on the scope
\* chain are in nodes, rootNodeIndex is the index of the root in nodes, the
\* nodes before the root are off the scope chain, and after a step that
\* trims, at most maxAllowedReturnNodes nodes precede the root.
C28_TrimKeepsLiveNodes ==
    rootNode # NoNode =>
        /\ rootNodeIndex + 1 \in 1..Len(visNodes)
        /\ visNodes[rootNodeIndex + 1] = rootNode
        /\ \A k \in 1..Len(scopeChain) : InSeq(scopeChain[k], visNodes)
        /\ \A k \in 1..Len(visNodes) :
              k <= rootNodeIndex => ~InSeq(visNodes[k], scopeChain)
        /\ lastAction.kind = "return" => rootNodeIndex <= lastAction.max

\* A return has just trimmed returned nodes away while a call is still open
\* under the root.
C28_Witness ==
    /\ lastAction.kind = "return"
    /\ rootNode # NoNode
    /\ rootNodeIndex = lastAction.max
    /\ Len(visNodes) < entered
    /\ Len(scopeChain) >= 2

====
